---- MODULE Spec2Model ----
(***************************************************************************)
(* The Collection coordinator of one peer (lib/collection/src/collection.rs)*)
(* as a state machine: the replica maps of the shards, the local replica   *)
(* slot, the registered shard transfers, the transfer tasks pool and the   *)
(* one-shot is_initialized latch.  Every public operation is one action.   *)
(* The collaborators whose code lives outside collection.rs (ReplicaSet,   *)
(* ShardHolder, TransferTasksPool, the transfer helpers) are modelled from *)
(* their description in the specification.                                 *)
(***************************************************************************)
EXTENDS Integers, FiniteSets, Sequences, TLC

\* ---------------------------------------------------------------- bounds
\* Largest number of transfers the registry holds at once.
MaxTransfers == 2
\* Longest list of changes handed to handle_replica_changes.
MaxChanges == 2

\* ------------------------------------------------------------ data model
PeerIds == {1, 2, 3}
\* Peers that appear as endpoints of a transfer.
TransferPeers == {1, 2}
\* Shards of the collection (shard_number is fixed at creation).
ShardIds == {0}
\* Shard ids a caller may name; 1 is not a shard of the collection.
InputShardIds == {0, 1}

ReplicaStates == {"Active", "Dead", "Partial", "Initializing", "Listener"}
\* States a caller of set_shard_replica_state asks for, and expects.
InputStates == {"Active", "Dead", "Partial"}
InputFromStates == {"None", "Active", "Dead"}
\* peer_state(p) = None
Absent == "Absent"
\* from_state = None
NoFromState == "None"

\* The local replica slot of a ReplicaSet.
LocalSlots == {"NoLocal", "Local", "ForwardProxy", "Dummy"}

ShardTransfers ==
    {t \in [shard_id : ShardIds, from : TransferPeers, to : TransferPeers, sync : BOOLEAN] :
        t.from # t.to}

ShardTransferKeys ==
    {k \in [shard_id : InputShardIds, from : TransferPeers, to : TransferPeers] : k.from # k.to}

\* ShardTransfer::key
TransferKey(t) == [shard_id |-> t.shard_id, from |-> t.from, to |-> t.to]

\* ShardTransferKey::check
KeyCheck(k, t) == k.shard_id = t.shard_id /\ k.from = t.from /\ k.to = t.to

VARIABLES
    this_peer_id,     \* Collection::this_peer_id
    shards_holder,    \* shard id -> [peers : PeerId -> state, local : slot]
    shard_transfers,  \* ShardHolder::shard_transfers
    transfer_tasks,   \* Collection::transfer_tasks : key -> task status
    detached_tasks,   \* running tasks whose handle the pool no longer holds
    is_initialized,   \* Collection::is_initialized
    last,             \* the operation that produced this state and its result
    points,           \* shard id -> ids of the points the shard stores
    updates_lock,     \* Collection::updates_lock : [writer, readers]
    client_call,      \* the update_from_client call in flight
    peer_call,        \* the update_from_peer call in flight
    last_read,        \* the last search, scroll, count or retrieve
    query,            \* the last search or search_batch call and its result
    scroll,           \* the scroll_by call and the pages it has returned
    storage,          \* the stored and the application version, and load's outcome
    snapshots,        \* the file system, and the snapshot calls and their results
    local_sync,       \* the last sync_local_state run and the callbacks it made
    initiate,         \* the initiate_shard_transfer call in flight and the clock
    holder_lock,      \* the RwLock around the ShardHolder and the tasks using it
    in_flight         \* coordinator calls of one peer that run concurrently

vars == <<this_peer_id, shards_holder, shard_transfers, transfer_tasks,
          detached_tasks, is_initialized, last,
          points, updates_lock, client_call, peer_call, last_read, query,
          scroll, storage, snapshots, local_sync, initiate, holder_lock, in_flight>>

\* The variables of the control plane and those of the data plane.
controlVars == <<this_peer_id, shards_holder, shard_transfers, transfer_tasks,
                 detached_tasks, is_initialized, last>>
dataVars == <<points, updates_lock, client_call, peer_call, last_read, query>>
\* The variables of the operations studied on their own.
auxVars == <<scroll, storage, snapshots, local_sync, initiate>>
\* The variables of the studies of concurrent calls.
concVars == <<holder_lock, in_flight>>

\* The coordinator's state as one value, the `self` of the methods below.
Col ==
    [this |-> this_peer_id, shards |-> shards_holder, transfers |-> shard_transfers,
     tasks |-> transfer_tasks, detached |-> detached_tasks, ready |-> is_initialized,
     requested |-> {}]

Ok(c) == [col |-> c, res |-> "Ok", ret |-> FALSE]
OkRet(c, b) == [col |-> c, res |-> "Ok", ret |-> b]
Err(c, e) == [col |-> c, res |-> e, ret |-> FALSE]

\* ------------------------------------------------------------ ReplicaSet
peer_state(rs, p) == rs.peers[p]

peers(rs) == {p \in PeerIds : rs.peers[p] # Absent}

ActiveReplicas(rs) == {p \in PeerIds : rs.peers[p] = "Active"}

is_local(rs) == rs.local \in {"Local", "Dummy"}

has_local_shard(rs) == rs.local # "NoLocal"

set_replica_state(rs, p, s) == [rs EXCEPT !.peers[p] = s]

ensure_replica_with_state(rs, p, s) == [rs EXCEPT !.peers[p] = s]

set_local(rs, this, s) == [rs EXCEPT !.peers[this] = s, !.local = "Local"]

remove_local(rs, this) == [rs EXCEPT !.peers[this] = Absent, !.local = "NoLocal"]

remove_remote(rs, p) == [rs EXCEPT !.peers[p] = Absent]

add_remote(rs, p, s) == [rs EXCEPT !.peers[p] = s]

\* remove_peer: rejected when it would leave the shard without a replica.
remove_peer(rs, this, p) ==
    IF peers(rs) = {p}
    THEN [rs |-> rs, ok |-> FALSE]
    ELSE [rs |-> IF p = this THEN remove_local(rs, this) ELSE remove_remote(rs, p),
          ok |-> TRUE]

un_proxify_local(rs) ==
    IF rs.local = "ForwardProxy" THEN [rs EXCEPT !.local = "Local"] ELSE rs

proxify_local(rs) ==
    IF rs.local = "Local" THEN [rs EXCEPT !.local = "ForwardProxy"] ELSE rs

\* ----------------------------------------------------------- ShardHolder
get_related_transfers(c, shard_id, peer_id) ==
    {t \in c.transfers : t.shard_id = shard_id /\ (t.from = peer_id \/ t.to = peer_id)}

\* The registered transfers a key matches.
get_registered(c, key) == {t \in c.transfers : KeyCheck(key, t)}

\* Inserts into the watched set of ShardTransfer values; an element already
\* present is not added (the caller ignores the returned flag).
register_start_shard_transfer(c, t) == [c EXCEPT !.transfers = @ \cup {t}]

register_finish_transfer(c, key) ==
    [c EXCEPT !.transfers = {t \in @ : ~KeyCheck(key, t)}]

\* ----------------------------------------------------- TransferTasksPool
TaskStatuses == {"NotFound", "Running", "FinishedOk", "FinishedFail"}

\* stop_if_exists: the handle leaves the pool; a running task is cancelled.
stop_if_exists(c, key) ==
    IF key \in DOMAIN c.tasks THEN [c EXCEPT !.tasks[key] = "NotFound"] ELSE c

stop_result(c, key) ==
    IF key \notin DOMAIN c.tasks \/ c.tasks[key] = "NotFound" THEN "NotFound"
    ELSE IF c.tasks[key] = "Running" THEN "Running" ELSE "Finished"

\* add_task: the map keeps one handle per key; a running task whose handle
\* is replaced is detached and keeps running.
add_task(c, key) ==
    [c EXCEPT !.tasks[key] = "Running",
              !.detached = IF c.tasks[key] = "Running" THEN @ \cup {key} ELSE @]

\* ------------------------------------------------------- transfer helpers
handle_transferred_shard_proxy(c, shard_id, to, sync) ==
    IF shard_id \notin DOMAIN c.shards THEN c
    ELSE LET rs1 == add_remote(c.shards[shard_id], to, "Active")
             rs2 == IF sync THEN remove_local(rs1, c.this) ELSE un_proxify_local(rs1)
         IN [c EXCEPT !.shards[shard_id] = rs2]

finalize_partial_shard(c, shard_id) ==
    IF shard_id \notin DOMAIN c.shards THEN c
    ELSE IF ~has_local_shard(c.shards[shard_id]) THEN c
    ELSE [c EXCEPT !.shards[shard_id] = set_replica_state(@, c.this, "Active")]

change_remote_shard_route(c, shard_id, old_peer_id, new_peer_id, sync) ==
    IF shard_id \notin DOMAIN c.shards THEN c
    ELSE LET rs0 == c.shards[shard_id]
             rs1 == IF c.this # new_peer_id THEN add_remote(rs0, new_peer_id, "Active") ELSE rs0
             rs2 == IF sync THEN remove_remote(rs1, old_peer_id) ELSE rs1
         IN [c EXCEPT !.shards[shard_id] = rs2]

revert_proxy_shard_to_local(c, shard_id) ==
    IF shard_id \notin DOMAIN c.shards THEN c
    ELSE [c EXCEPT !.shards[shard_id] = un_proxify_local(@)]

\* ------------------------------------------------------------ Collection
\* send_shard without the stop_if_exists that precedes add_task.
send_shard_without_stop(c, t) == add_task(c, TransferKey(t))

\* Collection::send_shard
send_shard(c, t) == add_task(stop_if_exists(c, TransferKey(t)), TransferKey(t))

\* start_shard_transfer that spawns the task on every sender, local or not.
start_shard_transfer_any_sender(c, t) ==
    LET c1 == register_start_shard_transfer(c, t)
    IN IF t.shard_id \notin DOMAIN c1.shards
       THEN Err(c1, "ServiceError")
       ELSE LET rs == c1.shards[t.shard_id]
                local == is_local(rs)
                is_receiver == c1.this = t.to
                is_sender == c1.this = t.from
                c2 == IF ~local /\ is_receiver
                      THEN [c1 EXCEPT !.shards[t.shard_id] = set_local(rs, c1.this, "Partial")]
                      ELSE [c1 EXCEPT !.shards[t.shard_id] = set_replica_state(rs, t.to, "Partial")]
                do_transfer == is_sender
            IN OkRet(IF do_transfer THEN send_shard(c2, t) ELSE c2, do_transfer)

\* Collection::start_shard_transfer
start_shard_transfer(c, t) ==
    LET c1 == register_start_shard_transfer(c, t)
    IN IF t.shard_id \notin DOMAIN c1.shards
       THEN Err(c1, "ServiceError")
       ELSE LET rs == c1.shards[t.shard_id]
                local == is_local(rs)
                is_receiver == c1.this = t.to
                is_sender == c1.this = t.from
                c2 == IF ~local /\ is_receiver
                      THEN [c1 EXCEPT !.shards[t.shard_id] = set_local(rs, c1.this, "Partial")]
                      ELSE [c1 EXCEPT !.shards[t.shard_id] = set_replica_state(rs, t.to, "Partial")]
                do_transfer == local /\ is_sender
            IN OkRet(IF do_transfer THEN send_shard(c2, t) ELSE c2, do_transfer)

\* finish_shard_transfer that reports a transfer it did not find registered.
finish_shard_transfer_must_be_registered(c, t) ==
    LET c1 == stop_if_exists(c, TransferKey(t))
        c2 == IF c1.this = t.from
              THEN handle_transferred_shard_proxy(c1, t.shard_id, t.to, t.sync) ELSE c1
        c3 == IF c2.this = t.to THEN finalize_partial_shard(c2, t.shard_id) ELSE c2
        c4 == IF c3.this # t.from
              THEN change_remote_shard_route(c3, t.shard_id, t.from, t.to, t.sync) ELSE c3
    IN IF get_registered(c4, TransferKey(t)) = {}
       THEN Err(c4, "NotFound")
       ELSE Ok(register_finish_transfer(c4, TransferKey(t)))

\* finish_shard_transfer that leaves the task of the transfer running.
finish_shard_transfer_without_stop(c, t) ==
    LET c2 == IF c.this = t.from
              THEN handle_transferred_shard_proxy(c, t.shard_id, t.to, t.sync) ELSE c
        c3 == IF c2.this = t.to THEN finalize_partial_shard(c2, t.shard_id) ELSE c2
        c4 == IF c3.this # t.from
              THEN change_remote_shard_route(c3, t.shard_id, t.from, t.to, t.sync) ELSE c3
    IN Ok(register_finish_transfer(c4, TransferKey(t)))

\* finish_shard_transfer whose receiver does not promote its replica.
finish_shard_transfer_without_finalize(c, t) ==
    LET c1 == stop_if_exists(c, TransferKey(t))
        c2 == IF c1.this = t.from
              THEN handle_transferred_shard_proxy(c1, t.shard_id, t.to, t.sync) ELSE c1
        c4 == IF c2.this # t.from
              THEN change_remote_shard_route(c2, t.shard_id, t.from, t.to, t.sync) ELSE c2
    IN Ok(register_finish_transfer(c4, TransferKey(t)))

\* Collection::finish_shard_transfer
finish_shard_transfer(c, t) ==
    LET c1 == stop_if_exists(c, TransferKey(t))
        c2 == IF c1.this = t.from
              THEN handle_transferred_shard_proxy(c1, t.shard_id, t.to, t.sync) ELSE c1
        c3 == IF c2.this = t.to THEN finalize_partial_shard(c2, t.shard_id) ELSE c2
        c4 == IF c3.this # t.from
              THEN change_remote_shard_route(c3, t.shard_id, t.from, t.to, t.sync) ELSE c3
    IN Ok(register_finish_transfer(c4, TransferKey(t)))

\* Collection::get_transfer: any registered transfer the key matches.
get_transfer(c, key) == get_registered(c, key)

\* Collection::_abort_shard_transfer with get_transfer having found `found`
\* (a set: empty for None, else the one transfer found).
AbortWith(c, key, found) ==
    LET c1 == stop_if_exists(c, key)
    IN IF key.shard_id \notin DOMAIN c1.shards
       THEN Err(c1, "BadRequest")
       ELSE LET rs == c1.shards[key.shard_id]
                sync == \E t \in found : t.sync
                rm == remove_peer(rs, c1.this, key.to)
            IN IF ~sync /\ ~rm.ok
               THEN Err(c1, "BadRequest")
               ELSE LET rs1 == IF sync THEN set_replica_state(rs, key.to, "Dead") ELSE rm.rs
                        c2 == [c1 EXCEPT !.shards[key.shard_id] = rs1]
                        c3 == IF c2.this = key.from
                              THEN revert_proxy_shard_to_local(c2, key.shard_id) ELSE c2
                    IN Ok(register_finish_transfer(c3, key))

\* Collection::_abort_shard_transfer: the set of outcomes, one for each
\* transfer get_transfer may return.
_abort_shard_transfer(c, key) ==
    IF get_transfer(c, key) = {}
    THEN {AbortWith(c, key, {})}
    ELSE {AbortWith(c, key, {t}) : t \in get_transfer(c, key)}

\* Collection::abort_shard_transfer
abort_shard_transfer(c, key) == _abort_shard_transfer(c, key)

\* The loop over the related transfers that stops after the first one.
AbortRelated_first_only(c, todo) ==
    IF todo = {}
    THEN {Ok(c)}
    ELSE UNION {_abort_shard_transfer(c, TransferKey(t)) : t \in todo}

\* The loop of set_shard_replica_state over the related transfers, in any
\* order of the set's iteration; `?` leaves the loop at the first error.
RECURSIVE AbortRelated(_, _)
AbortRelated(c, todo) ==
    IF todo = {}
    THEN {Ok(c)}
    ELSE UNION {UNION {IF r.res = "Ok" THEN AbortRelated(r.col, todo \ {t}) ELSE {r} :
                         r \in _abort_shard_transfer(c, TransferKey(t))} :
                  t \in todo}

\* Collection::is_all_active / the latch check of set_shard_replica_state
IsFullyActive(c) ==
    \A s \in DOMAIN c.shards : \A p \in peers(c.shards[s]) : c.shards[s].peers[p] = "Active"

\* The latch as a level: cleared again when some replica is not Active.
CheckInitialized_level(c) == [c EXCEPT !.ready = IsFullyActive(c)]

\* Lines 378-395: the latch is set when every replica is Active.
CheckInitialized(c) ==
    IF ~c.ready /\ IsFullyActive(c) THEN [c EXCEPT !.ready = TRUE] ELSE c

\* The recovery request with any peer of the shard as its source.
RequestRecovery_any_peer(c, shard_id, peer_id, state) ==
    IF state = "Dead" /\ c.this = peer_id /\ peers(c.shards[shard_id]) # {}
    THEN {[c EXCEPT !.requested = @ \cup
              {[shard_id |-> shard_id, from |-> p, to |-> c.this, sync |-> TRUE]}] :
            p \in peers(c.shards[shard_id])}
    ELSE {c}

\* Lines 397-414: recovery request when this peer's replica went Dead; the
\* source is whichever Active peer the map's iteration yields first.
RequestRecovery(c, shard_id, peer_id, state) ==
    IF state = "Dead" /\ c.this = peer_id /\ ActiveReplicas(c.shards[shard_id]) # {}
    THEN {[c EXCEPT !.requested = @ \cup
              {[shard_id |-> shard_id, from |-> p, to |-> c.this, sync |-> TRUE]}] :
            p \in ActiveReplicas(c.shards[shard_id])}
    ELSE {c}

\* set_shard_replica_state without the from_state validation of lines 335-342.
set_shard_replica_state_without_from_check(c, shard_id, peer_id, state, from_state) ==
    IF shard_id \notin DOMAIN c.shards
    THEN {Err(c, "NotFound")}
    ELSE LET rs == c.shards[shard_id]
         IN IF state # "Active" /\ ActiveReplicas(rs) = {peer_id}
            THEN {Err(c, "BadInput")}
            ELSE LET c1 == [c EXCEPT !.shards[shard_id] =
                                ensure_replica_with_state(rs, peer_id, state)]
                     aborted == IF state = "Dead"
                                THEN AbortRelated(c1, get_related_transfers(c1, shard_id, peer_id))
                                ELSE {Ok(c1)}
                 IN UNION {IF r.res # "Ok"
                           THEN {r}
                           ELSE {Ok(c2) : c2 \in RequestRecovery(CheckInitialized(r.col),
                                                                  shard_id, peer_id, state)} :
                             r \in aborted}

\* Collection::set_shard_replica_state: the set of possible outcomes.
set_shard_replica_state(c, shard_id, peer_id, state, from_state) ==
    IF shard_id \notin DOMAIN c.shards
    THEN {Err(c, "NotFound")}
    ELSE LET rs == c.shards[shard_id]
         IN IF from_state # NoFromState /\ peer_state(rs, peer_id) # from_state
            THEN {Err(c, "BadInput")}
            ELSE IF state # "Active" /\ ActiveReplicas(rs) = {peer_id}
            THEN {Err(c, "BadInput")}
            ELSE LET c1 == [c EXCEPT !.shards[shard_id] =
                                ensure_replica_with_state(rs, peer_id, state)]
                     aborted == IF state = "Dead"
                                THEN AbortRelated(c1, get_related_transfers(c1, shard_id, peer_id))
                                ELSE {Ok(c1)}
                 IN UNION {IF r.res # "Ok"
                           THEN {r}
                           ELSE {Ok(c2) : c2 \in RequestRecovery(CheckInitialized(r.col),
                                                                  shard_id, peer_id, state)} :
                             r \in aborted}

\* Change::Remove(shard_id, peer_id)
Changes ==
    [shard_id : ShardIds, peer_id : PeerIds] \cup {[shard_id |-> 1, peer_id |-> 1]}

\* handle_replica_changes without the check that the peer has a replica.
RECURSIVE handle_replica_changes_any_peer(_, _)
handle_replica_changes_any_peer(c, replica_changes) ==
    IF replica_changes = <<>>
    THEN Ok(c)
    ELSE LET change == Head(replica_changes)
         IN IF change.shard_id \notin DOMAIN c.shards
            THEN Err(c, "BadRequest")
            ELSE LET rs == c.shards[change.shard_id]
                     rm == remove_peer(rs, c.this, change.peer_id)
                 IN IF Cardinality(peers(rs)) = 1 THEN Err(c, "BadRequest")
                    ELSE IF ~rm.ok THEN Err(c, "BadRequest")
                    ELSE handle_replica_changes_any_peer(
                             [c EXCEPT !.shards[change.shard_id] = rm.rs],
                             Tail(replica_changes))

\* Collection::handle_replica_changes: the changes are applied in order and
\* the first rejected one ends the call.
RECURSIVE handle_replica_changes(_, _)
handle_replica_changes(c, replica_changes) ==
    IF replica_changes = <<>>
    THEN Ok(c)
    ELSE LET change == Head(replica_changes)
         IN IF change.shard_id \notin DOMAIN c.shards
            THEN Err(c, "BadRequest")
            ELSE LET rs == c.shards[change.shard_id]
                     rm == remove_peer(rs, c.this, change.peer_id)
                 IN IF change.peer_id \notin peers(rs) THEN Err(c, "BadRequest")
                    ELSE IF Cardinality(peers(rs)) = 1 THEN Err(c, "BadRequest")
                    ELSE IF ~rm.ok THEN Err(c, "BadRequest")
                    ELSE handle_replica_changes(
                             [c EXCEPT !.shards[change.shard_id] = rm.rs],
                             Tail(replica_changes))

\* Collection::remove_shards_at_peer: the shards are visited in any order
\* and the first rejected removal ends the call.
RECURSIVE remove_shards_at_peer_from(_, _, _)
remove_shards_at_peer_from(c, peer_id, todo) ==
    IF todo = {}
    THEN {Ok(c)}
    ELSE UNION {LET rm == remove_peer(c.shards[s], c.this, peer_id)
                IN IF ~rm.ok
                   THEN {Err(c, "BadRequest")}
                   ELSE remove_shards_at_peer_from([c EXCEPT !.shards[s] = rm.rs],
                                                   peer_id, todo \ {s}) :
                  s \in todo}

remove_shards_at_peer(c, peer_id) == remove_shards_at_peer_from(c, peer_id, DOMAIN c.shards)

\* ------------------------------------------------------------ data plane
\* The updates_lock with no holder.
Unlocked == [writer |-> "Free", readers |-> {}]

\* No call of that kind in flight or answered.
NoUpdate == [pc |-> "idle", op |-> {}, calls |-> <<>>, results |-> <<>>, ret |-> <<>>]
NoRead == [kind |-> "none", held |-> FALSE]
\* A result slot of a query that has not been answered.
NotCalled == [done |-> FALSE, res |-> "Ok", val |-> <<>>]
NoQuery == [request |-> <<>>, shard_selection |-> {}, search |-> NotCalled,
            search_batch |-> NotCalled]

\* No scroll_by call.
NoScroll == [called |-> FALSE]

\* No collection directory is being loaded.
NoStorage == [called |-> FALSE]

\* No snapshot directory is looked at.
NoSnapshots == [called |-> FALSE]

\* sync_local_state has not run.
NoSync == [called |-> FALSE]

\* initiate_shard_transfer has not been called.
NoInitiate == [called |-> FALSE]

\* No task uses the ShardHolder lock.
NoLock == [called |-> FALSE]

\* No concurrent calls.
NoCalls == [called |-> FALSE]

ConcIdle ==
    /\ holder_lock = NoLock
    /\ in_flight = NoCalls

\* The operations studied on their own are not in use.
AuxIdle ==
    /\ scroll = NoScroll
    /\ storage = NoStorage
    /\ snapshots = NoSnapshots
    /\ local_sync = NoSync
    /\ initiate = NoInitiate
    /\ ConcIdle

\* No traffic: the state of the data plane while the transfer state machine
\* is studied.
DataIdle(shard_ids) ==
    /\ points = [s \in shard_ids |-> {}]
    /\ updates_lock = Unlocked
    /\ client_call = NoUpdate
    /\ peer_call = NoUpdate
    /\ last_read = NoRead
    /\ query = NoQuery

\* --------------------------------------------------------- state machine
TaskKeys == {k \in ShardTransferKeys : k.shard_id \in ShardIds}

\* Collection::new: every replica of the shard distribution starts
\* Initializing; the shard is local when this peer is in the distribution.
Init ==
    /\ this_peer_id \in PeerIds
    /\ \E dist \in [ShardIds -> (SUBSET PeerIds) \ {{}}] :
          shards_holder =
              [s \in ShardIds |->
                  [peers |-> [p \in PeerIds |-> IF p \in dist[s] THEN "Initializing" ELSE Absent],
                   local |-> IF this_peer_id \in dist[s] THEN "Local" ELSE "NoLocal"]]
    /\ shard_transfers = {}
    /\ transfer_tasks = [k \in TaskKeys |-> "NotFound"]
    /\ detached_tasks = {}
    /\ is_initialized = FALSE
    /\ last = [op |-> "new", res |-> "Ok", ret |-> FALSE, requested |-> {},
               arg |-> <<>>, registered |-> FALSE, task |-> "NotFound", repeat |-> FALSE]
    /\ DataIdle(ShardIds)
    /\ AuxIdle

Registered(key) == get_registered(Col, key) # {}

\* What `last` records of a call on a transfer or a key: the argument,
\* whether its key was registered and what its task was before the call,
\* and whether the call repeats the previous, successful call on a transfer
\* that was registered then.
CallOn(op, arg, key) ==
    [arg |-> arg,
     registered |-> Registered(key),
     task |-> stop_result(Col, key),
     repeat |-> last.op = op /\ last.arg = arg /\ last.res = "Ok" /\ last.registered]

\* What `last` records of a successful set_shard_replica_state: the shard,
\* the peer and the new state, and whether a transfer of the shard had the
\* peer as an endpoint before the call.
CallOnPeer(shard_id, peer_id, state) ==
    [arg |-> <<shard_id, peer_id, state>>,
     registered |-> get_related_transfers(Col, shard_id, peer_id) # {},
     task |-> "NotFound",
     repeat |-> FALSE]

NoCall == [arg |-> <<>>, registered |-> FALSE, task |-> "NotFound", repeat |-> FALSE]

\* The state after a call of `op` with outcome r.
Apply(r, op, call) ==
    /\ this_peer_id' = r.col.this
    /\ shards_holder' = r.col.shards
    /\ shard_transfers' = r.col.transfers
    /\ transfer_tasks' = r.col.tasks
    /\ detached_tasks' = r.col.detached
    /\ is_initialized' = r.col.ready
    /\ last' = [op |-> op, res |-> r.res, ret |-> r.ret, requested |-> r.col.requested,
                arg |-> call.arg, registered |-> call.registered, task |-> call.task,
                repeat |-> call.repeat]
    /\ UNCHANGED <<dataVars, auxVars, concVars>>

SetShardReplicaState ==
    \E shard_id \in InputShardIds, peer_id \in PeerIds, state \in InputStates,
       from_state \in InputFromStates :
       \E r \in set_shard_replica_state(Col, shard_id, peer_id, state, from_state) :
          Apply(r, "set_shard_replica_state",
                IF r.res = "Ok" THEN CallOnPeer(shard_id, peer_id, state) ELSE NoCall)

StartShardTransfer ==
    \E t \in ShardTransfers :
       /\ t \in shard_transfers \/ Cardinality(shard_transfers) < MaxTransfers
       /\ Apply(start_shard_transfer(Col, t), "start_shard_transfer",
                CallOn("start_shard_transfer", t, TransferKey(t)))

FinishShardTransfer ==
    \E t \in ShardTransfers :
       Apply(finish_shard_transfer(Col, t), "finish_shard_transfer",
             CallOn("finish_shard_transfer", t, TransferKey(t)))

AbortShardTransfer ==
    \E key \in ShardTransferKeys :
       \E r \in abort_shard_transfer(Col, key) :
          Apply(r, "abort_shard_transfer", CallOn("abort_shard_transfer", key, key))

SeqsUpTo(S, n) == UNION {[1..k -> S] : k \in 0..n}

HandleReplicaChanges ==
    \E replica_changes \in SeqsUpTo(Changes, MaxChanges) :
       Apply(handle_replica_changes(Col, replica_changes), "handle_replica_changes", NoCall)

RemoveShardsAtPeer ==
    \E peer_id \in PeerIds :
       \E r \in remove_shards_at_peer(Col, peer_id) :
          Apply(r, "remove_shards_at_peer", NoCall)

\* The background transfer task of a sender: wrap the local replica in a
\* forward proxy, then finish with success or failure.
TaskStep(c, key, step) ==
    IF step = "proxify"
    THEN [c EXCEPT !.shards[key.shard_id] = proxify_local(@)]
    ELSE IF step = "success"
    THEN [c EXCEPT !.tasks[key] = "FinishedOk"]
    ELSE [revert_proxy_shard_to_local(c, key.shard_id) EXCEPT !.tasks[key] = "FinishedFail"]

TransferTask ==
    \E key \in TaskKeys, step \in {"proxify", "success", "failure"} :
       /\ transfer_tasks[key] = "Running"
       /\ step = "proxify" => shards_holder[key.shard_id].local = "Local"
       /\ step = "success" => shards_holder[key.shard_id].local = "ForwardProxy"
       /\ Apply(Ok(TaskStep(Col, key, step)), "transfer_task", NoCall)

Next ==
    \/ SetShardReplicaState
    \/ StartShardTransfer
    \/ FinishShardTransfer
    \/ AbortShardTransfer
    \/ HandleReplicaChanges
    \/ RemoveShardsAtPeer
    \/ TransferTask

Spec == Init /\ [][Next]_vars

TypeOK ==
    /\ this_peer_id \in PeerIds
    /\ shards_holder \in [ShardIds -> [peers : [PeerIds -> ReplicaStates \cup {Absent}],
                                       local : LocalSlots]]
    /\ shard_transfers \subseteq ShardTransfers
    /\ transfer_tasks \in [TaskKeys -> TaskStatuses]
    /\ detached_tasks \subseteq TaskKeys
    /\ is_initialized \in BOOLEAN

\* ---------------------------------------------------- data plane: updates
\* Shards of the collection that serves traffic.
DataShardIds == {0, 1, 2}
\* Shard ids a peer may select; 3 is not a shard of the collection.
InputDataShardIds == {0, 3}
\* Ids of the points an update operation may carry.
UpdatePointIds == {1, 2, 3, 4}
\* Errors a shard may answer an update with.
UpdateErrors == {"ServiceError", "BadInput"}

\* HashRing::shard_of: a fixed map from point id to shard id.
shard_of(id) == id % Cardinality(DataShardIds)

\* The orders a collection of shards may be listed in.
Orders(S) ==
    IF S = {} THEN {<<>>}
    ELSE {f \in [1..Cardinality(S) -> S] : \A i, j \in 1..Cardinality(S) : i # j => f[i] # f[j]}

\* ShardHolder::split_by_shard: one sub-operation per shard touched, each
\* point in the sub-operation of the shard the hash ring maps it to; the
\* vector's order is the map's iteration order.
split_by_shard(shard_ids, op) ==
    LET touched == {s \in shard_ids : \E id \in op.points : shard_of(id) = s}
    IN {[i \in DOMAIN order |->
            [shard |-> order[i], points |-> {id \in op.points : shard_of(id) = order[i]}]] :
          order \in Orders(touched)}

\* CollectionResult<UpdateResult> of one shard, and errors raised before any
\* shard is asked.
UpdateOk(shard_id) == [ok |-> TRUE, shard |-> shard_id, err |-> "None"]
UpdateErr(shard_id, e) == [ok |-> FALSE, shard |-> shard_id, err |-> e]
CollectionError(e) == [ok |-> FALSE, err |-> e]
\* A sub-request that join_all has not completed yet.
Pending(shard_id) == [ok |-> FALSE, shard |-> shard_id, err |-> "Pending"]

\* ReplicaSet::update_with_consistency / update_local with the given
\* outcome: the points are stored when the shard answers Ok.
update_shard(pts, shard_id, sub_points, outcome) ==
    IF outcome = "Ok" THEN [pts EXCEPT ![shard_id] = @ \cup sub_points] ELSE pts

update_result(shard_id, outcome) ==
    IF outcome = "Ok" THEN UpdateOk(shard_id) ELSE UpdateErr(shard_id, outcome)

\* The aggregation that reports the last failed sub-request as first_err.
AggregateResults_last_err(results) ==
    LET with_error == Cardinality({i \in DOMAIN results : ~results[i].ok})
        result_len == Len(results)
        last_err == results[CHOOSE i \in DOMAIN results :
                               ~results[i].ok /\ \A j \in DOMAIN results : j > i => results[j].ok]
    IN IF with_error > 0
       THEN IF with_error < result_len
            THEN [ok |-> FALSE, err |-> "InconsistentShardFailure",
                  shards_total |-> result_len, shards_failed |-> with_error,
                  first_err |-> last_err]
            ELSE last_err
       ELSE results[Len(results)]

\* Collection::update_from_client, lines 794-819: the answer computed from
\* the sub-results, which are in dispatch order.
AggregateResults(results) ==
    LET with_error == Cardinality({i \in DOMAIN results : ~results[i].ok})
        result_len == Len(results)
        first_err == results[CHOOSE i \in DOMAIN results :
                                ~results[i].ok /\ \A j \in 1..(i - 1) : results[j].ok]
    IN IF with_error > 0
       THEN IF with_error < result_len
            THEN [ok |-> FALSE, err |-> "InconsistentShardFailure",
                  shards_total |-> result_len, shards_failed |-> with_error,
                  first_err |-> first_err]
            ELSE first_err
       ELSE results[Len(results)]

\* The dispatch that sends the whole operation to every shard touched.
shard_requests_whole_op(op, shard_to_op) ==
    IF shard_to_op = <<>>
    THEN [res |-> CollectionError("BadRequest"), calls |-> <<>>]
    ELSE [res |-> <<>>,
          calls |-> [i \in DOMAIN shard_to_op |->
                        [shard |-> shard_to_op[i].shard, points |-> op.points]]]

\* Collection::update_from_client, lines 779-792: no sub-operation is a
\* BadRequest, else one update_with_consistency call per sub-operation on
\* its ReplicaSet.
shard_requests(op, shard_to_op) ==
    IF shard_to_op = <<>>
    THEN [res |-> CollectionError("BadRequest"), calls |-> <<>>]
    ELSE [res |-> <<>>, calls |-> shard_to_op]

\* updates_lock.read() returns at once while a writer holds the lock.
read_lock_ready_ignoring_writer(lock) == lock.writer # "Waiting"

\* updates_lock.read(): granted while no writer holds or awaits the lock.
read_lock_ready(lock) == lock.writer = "Free"

\* updates_lock.write(): granted to the waiting writer once no reader is left.
write_lock_ready(lock) == lock.writer = "Waiting" /\ lock.readers = {}

\* The operations a client sends, well-formed or not: upserts of no point,
\* of two points of one shard, of points of two shards and of all shards.
ClientOperations ==
    [points : {{}, {1, 4}, {2, 3}, UpdatePointIds}, valid : BOOLEAN]
\* The operations a peer forwards.
PeerOperations == {[points |-> {3}, valid |-> TRUE]}

\* A collection of three shards, one Active local replica each, no traffic yet.
UpdateInit ==
    /\ this_peer_id = 1
    /\ shards_holder =
          [s \in DataShardIds |->
              [peers |-> [p \in PeerIds |-> IF p = 1 THEN "Active" ELSE Absent],
               local |-> "Local"]]
    /\ shard_transfers = {}
    /\ transfer_tasks = [k \in TaskKeys |-> "NotFound"]
    /\ detached_tasks = {}
    /\ is_initialized = TRUE
    /\ last = [op |-> "new", res |-> "Ok", ret |-> FALSE, requested |-> {},
               arg |-> <<>>, registered |-> FALSE, task |-> "NotFound", repeat |-> FALSE]
    /\ DataIdle(DataShardIds)
    /\ AuxIdle

\* update_from_client, line 773: validate, then wait for the read guard.
UpdateFromClientCall ==
    \E op \in ClientOperations :
       /\ client_call.pc \in {"idle", "done"}
       /\ client_call' =
             IF op.valid
             THEN [pc |-> "lock", op |-> op, calls |-> <<>>, results |-> <<>>, ret |-> <<>>]
             ELSE [pc |-> "done", op |-> op, calls |-> <<>>, results |-> <<>>,
                   ret |-> CollectionError("BadInput")]
       /\ UNCHANGED <<controlVars, auxVars, points, updates_lock, peer_call, last_read, query, concVars>>

\* Lines 774-792: the read guard is taken, the operation split, and the
\* sub-requests are issued; an empty split returns and drops the guard.
UpdateFromClientDispatch ==
    /\ client_call.pc = "lock"
    /\ read_lock_ready(updates_lock)
    /\ \E shard_to_op \in split_by_shard(DOMAIN shards_holder, client_call.op) :
          LET req == shard_requests(client_call.op, shard_to_op)
          IN IF req.calls = <<>>
             THEN /\ client_call' = [client_call EXCEPT !.pc = "done", !.ret = req.res]
                  /\ UNCHANGED updates_lock
             ELSE /\ client_call' =
                        [client_call EXCEPT !.pc = "dispatch", !.calls = req.calls,
                            !.results = [i \in DOMAIN req.calls |-> Pending(req.calls[i].shard)]]
                  /\ updates_lock' = [updates_lock EXCEPT !.readers = @ \cup {"client"}]
    /\ UNCHANGED <<controlVars, auxVars, points, peer_call, last_read, query, concVars>>

\* One sub-request of join_all completes, in any order, with any outcome.
UpdateFromClientShard ==
    /\ client_call.pc = "dispatch"
    /\ \E i \in DOMAIN client_call.calls, outcome \in {"Ok"} \cup UpdateErrors :
          LET call == client_call.calls[i]
          IN /\ client_call.results[i] = Pending(call.shard)
             /\ points' = update_shard(points, call.shard, call.points, outcome)
             /\ client_call' =
                   [client_call EXCEPT !.results[i] = update_result(call.shard, outcome)]
    /\ UNCHANGED <<controlVars, auxVars, updates_lock, peer_call, last_read, query, concVars>>

\* Lines 794-819: every sub-request is complete; the answer is aggregated
\* and the read guard dropped.
UpdateFromClientReturn ==
    /\ client_call.pc = "dispatch"
    /\ \A i \in DOMAIN client_call.results :
          client_call.results[i] # Pending(client_call.calls[i].shard)
    /\ client_call' =
          [client_call EXCEPT !.pc = "done", !.ret = AggregateResults(client_call.results)]
    /\ updates_lock' = [updates_lock EXCEPT !.readers = @ \ {"client"}]
    /\ UNCHANGED <<controlVars, auxVars, points, peer_call, last_read, query, concVars>>

\* update_from_peer is called and waits for the read guard.
UpdateFromPeerCall ==
    \E op \in PeerOperations, shard_selection \in InputDataShardIds :
       /\ peer_call.pc \in {"idle", "done"}
       /\ peer_call' = [pc |-> "lock", op |-> op, calls |-> <<shard_selection>>,
                        results |-> <<>>, ret |-> <<>>]
       /\ UNCHANGED <<controlVars, auxVars, points, updates_lock, client_call, last_read, query, concVars>>

\* Lines 750-764: under the read guard the selected shard's update_local is
\* called; a missing shard, or a shard without local replica, is a
\* ServiceError, an error of update_local is returned as it is.
UpdateFromPeer ==
    /\ peer_call.pc = "lock"
    /\ read_lock_ready(updates_lock)
    /\ LET shard_selection == peer_call.calls[1]
       IN IF shard_selection \notin DOMAIN shards_holder
          THEN /\ peer_call' = [peer_call EXCEPT !.pc = "done",
                                   !.ret = CollectionError("ServiceError")]
               /\ UNCHANGED points
          ELSE \E outcome \in {"Ok"} \cup UpdateErrors :
                  /\ points' = update_shard(points, shard_selection, peer_call.op.points,
                                            outcome)
                  /\ peer_call' = [peer_call EXCEPT !.pc = "done",
                                      !.ret = update_result(shard_selection, outcome)]
    /\ UNCHANGED <<controlVars, auxVars, updates_lock, client_call, last_read, query, concVars>>

\* lock_updates is called: the writer queues behind the readers.
LockUpdatesCall ==
    /\ updates_lock.writer = "Free"
    /\ updates_lock' = [updates_lock EXCEPT !.writer = "Waiting"]
    /\ UNCHANGED <<controlVars, auxVars, points, client_call, peer_call, last_read, query, concVars>>

\* Collection::lock_updates returns the write guard.
LockUpdates ==
    /\ write_lock_ready(updates_lock)
    /\ updates_lock' = [updates_lock EXCEPT !.writer = "Held"]
    /\ UNCHANGED <<controlVars, auxVars, points, client_call, peer_call, last_read, query, concVars>>

\* The caller drops the write guard.
UnlockUpdates ==
    /\ updates_lock.writer = "Held"
    /\ updates_lock' = [updates_lock EXCEPT !.writer = "Free"]
    /\ UNCHANGED <<controlVars, auxVars, points, client_call, peer_call, last_read, query, concVars>>

\* search, scroll_by, count and retrieve take the ShardHolder read guard
\* only and answer from the shards.
ReadKinds == {"search", "scroll_by", "count", "retrieve"}

ReadCall ==
    \E kind \in ReadKinds :
       /\ last_read' = [kind |-> kind, held |-> updates_lock.writer = "Held"]
       /\ UNCHANGED <<controlVars, auxVars, points, updates_lock, client_call, peer_call, query, concVars>>

UpdateNext ==
    \/ UpdateFromClientCall
    \/ UpdateFromClientDispatch
    \/ UpdateFromClientShard
    \/ UpdateFromClientReturn
    \/ UpdateFromPeerCall
    \/ UpdateFromPeer
    \/ LockUpdatesCall
    \/ LockUpdates
    \/ UnlockUpdates
    \/ ReadCall

UpdateSpec == UpdateInit /\ [][UpdateNext]_vars

\* ----------------------------------------------------- data plane: search
\* Ids of the points a collection may hold.
SearchPointIds == {1, 2, 3, 4, 5}
\* The score of each point for the query vector; some scores are equal.
Score(id) == <<3, 1, 3, 2, 1>>[id]

\* SearchRequest: limit, offset, with_payload (None, Bool(false), Bool(true)),
\* with_vector likewise, and the name of the vector searched.
SearchRequests ==
    [limit : {0, 1, 2}, offset : {0, 1, 3},
     with_payload : {"None", "False", "True"},
     with_vector : {"None", "False", "True"},
     vector : {"cosine", "euclid"}]
\* The requests batches of two are made of.
BatchRequests ==
    [limit : {0, 1, 2}, offset : {0, 1, 3},
     with_payload : {"None", "True"}, with_vector : {"None"},
     vector : {"cosine", "euclid"}]
SearchRequestBatches ==
    {<<>>} \cup {<<r>> : r \in SearchRequests} \cup (BatchRequests \X BatchRequests)
\* shard_selection: None ({}), a shard of the collection, or shard 3.
ShardSelections == {{}, {0}, {1}, {2}, {3}}

\* const PAYLOAD_TRANSFERS_FACTOR_THRESHOLD
PAYLOAD_TRANSFERS_FACTOR_THRESHOLD == 10

\* WithPayloadInterface::is_required on an Option, None counting as false.
is_payload_required(with_payload) == with_payload = "True"
\* WithVector::is_some on an Option, None counting as false.
is_vector_required(with_vector) == with_vector = "True"

\* Distance::distance_order of the named vector's distance.
distance_order(vector) == IF vector = "cosine" THEN "LargeBetter" ELSE "SmallBetter"

\* The point as a shard reports it: payload and vector are the point's own
\* or missing.
ScoredPoint(id, payload, vector) ==
    [id |-> id, score |-> Score(id),
     payload |-> IF payload THEN {id} ELSE {},
     vector |-> IF vector THEN {id} ELSE {}]

QueryOk(val) == [done |-> TRUE, res |-> "Ok", val |-> val]
QueryErr(e) == [done |-> TRUE, res |-> e, val |-> <<>>]

\* a is strictly better than b under the order.
Better(order, a, b) ==
    IF order = "LargeBetter" THEN a.score > b.score ELSE a.score < b.score

RemoveAt(seq, i) == [j \in 1..(Len(seq) - 1) |-> IF j < i THEN seq[j] ELSE seq[j + 1]]

\* peek_top_largest_iterable / peek_top_smallest_iterable: the k best
\* elements, best first; of equal elements the earlier comes first.
RECURSIVE peek_top(_, _, _)
peek_top(order, res, k) ==
    IF k = 0 \/ res = <<>>
    THEN <<>>
    ELSE LET i == CHOOSE i \in DOMAIN res :
                     /\ \A j \in DOMAIN res : ~Better(order, res[j], res[i])
                     /\ \A j \in 1..(i - 1) : Better(order, res[i], res[j])
         IN <<res[i]>> \o peek_top(order, RemoveAt(res, i), k - 1)

peek_top_largest_iterable(res, k) == peek_top("LargeBetter", res, k)
peek_top_smallest_iterable(res, k) == peek_top("SmallBetter", res, k)

\* The elements of a set of numbers in ascending order.
RECURSIVE Ascending(_)
Ascending(S) ==
    IF S = {} THEN <<>>
    ELSE LET m == CHOOSE x \in S : \A y \in S : x <= y
         IN <<m>> \o Ascending(S \ {m})

\* ReplicaSet::search for one request: the shard's limit + offset best
\* points, best first, with payload and vector as requested.
shard_search(stored, req) ==
    peek_top(distance_order(req.vector),
             [i \in 1..Cardinality(stored) |->
                 ScoredPoint(Ascending(stored)[i], is_payload_required(req.with_payload),
                             is_vector_required(req.with_vector))],
             req.limit + req.offset)

\* ReplicaSet::retrieve: the records of the ids the shard stores.
shard_retrieve(stored, ids, with_payload, with_vector) ==
    LET found == Ascending({id \in stored : \E i \in DOMAIN ids : ids[i] = id})
    IN [i \in DOMAIN found |-> ScoredPoint(found[i], with_payload, with_vector)]

\* ShardHolder::target_shard
target_shard(pts, shard_selection) ==
    IF shard_selection = {}
    THEN [res |-> "Ok", shards |-> Ascending(DOMAIN pts)]
    ELSE IF shard_selection \subseteq DOMAIN pts
    THEN [res |-> "Ok", shards |-> Ascending(shard_selection)]
    ELSE [res |-> "ServiceError", shards |-> <<>>]

\* The concatenation of a sequence of sequences.
RECURSIVE Flatten(_)
Flatten(seqs) == IF seqs = <<>> THEN <<>> ELSE Head(seqs) \o Flatten(Tail(seqs))

\* merge_from_shards, lines 943-953, with the offset left out of the number
\* of elements kept.
top_res_limit_only(res, request) ==
    IF distance_order(request.vector) = "LargeBetter"
    THEN peek_top_largest_iterable(res, request.limit)
    ELSE peek_top_smallest_iterable(res, request.limit)

\* merge_from_shards, lines 943-953: the limit + offset best elements under
\* the order of the request's vector.
top_res(res, request) ==
    IF distance_order(request.vector) = "LargeBetter"
    THEN peek_top_largest_iterable(res, request.limit + request.offset)
    ELSE peek_top_smallest_iterable(res, request.limit + request.offset)

\* The offset removed whatever the shard selection.
drain_offset_for_peers_too(top, request, shard_selection) ==
    IF request.offset > 0
    THEN IF Len(top) >= request.offset
         THEN SubSeq(top, request.offset + 1, Len(top))
         ELSE <<>>
    ELSE top

\* merge_from_shards, lines 954-963: the offset is removed for a client
\* request only.
drain_offset(top, request, shard_selection) ==
    IF shard_selection = {} /\ request.offset > 0
    THEN IF Len(top) >= request.offset
         THEN SubSeq(top, request.offset + 1, Len(top))
         ELSE <<>>
    ELSE top

\* merge_from_shards, lines 932-937: the i-th lists of the shards appended
\* in the order of the shards.
merged_results(all_searches_res, index) ==
    Flatten([k \in DOMAIN all_searches_res |-> all_searches_res[k][index]])

\* Collection::merge_from_shards
merge_from_shards(all_searches_res, request, shard_selection) ==
    QueryOk([index \in DOMAIN request |->
                drain_offset(top_res(merged_results(all_searches_res, index), request[index]),
                             request[index], shard_selection)])

\* The answers of the target shards to a batch: one list per request.
all_searches(pts, shards, request) ==
    [k \in DOMAIN shards |->
        [index \in DOMAIN request |-> shard_search(pts[shards[k]], request[index])]]

\* Collection::_search_batch
_search_batch(pts, request, shard_selection) ==
    LET target == target_shard(pts, shard_selection)
    IN IF target.res # "Ok"
       THEN QueryErr(target.res)
       ELSE merge_from_shards(all_searches(pts, target.shards, request), request,
                              shard_selection)

\* Collection::retrieve
retrieve(pts, ids, with_payload, with_vector, shard_selection) ==
    LET target == target_shard(pts, shard_selection)
    IN IF target.res # "Ok"
       THEN QueryErr(target.res)
       ELSE QueryOk(Flatten([k \in DOMAIN target.shards |->
                                shard_retrieve(pts[target.shards[k]], ids,
                                               is_payload_required(with_payload),
                                               is_vector_required(with_vector))]))

\* fill_search_result_with_payload, lines 1001-1017: each point takes the
\* payload and vector of the record with its id, which is used once; a
\* point without record is dropped.
RECURSIVE enrich(_, _)
enrich(search_result, records) ==
    IF search_result = <<>>
    THEN <<>>
    ELSE LET point == Head(search_result)
             match == {i \in DOMAIN records : records[i].id = point.id}
         IN IF match = {}
            THEN enrich(Tail(search_result), records)
            ELSE LET i == CHOOSE i \in match : \A j \in match : j <= i
                 IN <<[point EXCEPT !.payload = records[i].payload,
                                    !.vector = records[i].vector]>>
                    \o enrich(Tail(search_result),
                              SelectSeq(records, LAMBDA rec : rec.id # point.id))

\* Collection::fill_search_result_with_payload; with_vector is a WithVector,
\* no Option.
fill_search_result_with_payload(pts, search_result, with_payload, with_vector, shard_selection) ==
    IF with_payload = "False" /\ with_vector = "False"
    THEN QueryOk([i \in DOMAIN search_result |->
                     [search_result[i] EXCEPT !.payload = {}, !.vector = {}]])
    ELSE LET retrieved == retrieve(pts, [i \in DOMAIN search_result |-> search_result[i].id],
                                   with_payload, with_vector, shard_selection)
         IN IF retrieved.res # "Ok"
            THEN retrieved
            ELSE QueryOk(enrich(search_result, retrieved.val))

RECURSIVE SumLimits(_)
SumLimits(searches) ==
    IF searches = <<>> THEN 0 ELSE Head(searches).limit + SumLimits(Tail(searches))

RECURSIVE SumOffsets(_)
SumOffsets(searches) ==
    IF searches = <<>> THEN 0 ELSE Head(searches).offset + SumOffsets(Tail(searches))

\* The test of lines 836-862 satisfied by one request that asks for payload
\* or vectors.
is_two_step_any_request(pts, request) ==
    LET metadata_required ==
            \/ \E i \in DOMAIN request : is_payload_required(request[i].with_payload)
            \/ \E i \in DOMAIN request : is_vector_required(request[i].with_vector)
        sum_limits == SumLimits(request)
        sum_offsets == SumOffsets(request)
        require_transfers == Cardinality(DOMAIN pts) * (sum_limits + sum_offsets)
        used_transfers == sum_limits
    IN metadata_required
       /\ require_transfers > used_transfers * PAYLOAD_TRANSFERS_FACTOR_THRESHOLD

\* search_batch, lines 836-862: whether the batch takes the two-step path.
is_two_step(pts, request) ==
    LET metadata_required ==
            \/ \A i \in DOMAIN request : is_payload_required(request[i].with_payload)
            \/ \A i \in DOMAIN request : is_vector_required(request[i].with_vector)
        sum_limits == SumLimits(request)
        sum_offsets == SumOffsets(request)
        require_transfers == Cardinality(DOMAIN pts) * (sum_limits + sum_offsets)
        used_transfers == sum_limits
    IN metadata_required
       /\ require_transfers > used_transfers * PAYLOAD_TRANSFERS_FACTOR_THRESHOLD

\* Collection::search_batch
search_batch(pts, request, shard_selection) ==
    IF \A i \in DOMAIN request : request[i].limit = 0
    THEN QueryOk(<<>>)
    ELSE IF is_two_step(pts, request)
    THEN LET without_payload_batch ==
                 [i \in DOMAIN request |->
                     [request[i] EXCEPT !.with_payload = "None", !.with_vector = "None"]]
             without_payload_results ==
                 _search_batch(pts, without_payload_batch, shard_selection)
             filled_results ==
                 [i \in DOMAIN request |->
                     fill_search_result_with_payload(
                         pts, without_payload_results.val[i], request[i].with_payload,
                         IF request[i].with_vector = "None" THEN "False"
                         ELSE request[i].with_vector,
                         shard_selection)]
         IN IF without_payload_results.res # "Ok"
            THEN without_payload_results
            ELSE IF \E i \in DOMAIN request : filled_results[i].res # "Ok"
            THEN filled_results[CHOOSE i \in DOMAIN request : filled_results[i].res # "Ok"]
            ELSE QueryOk([i \in DOMAIN request |-> filled_results[i].val])
    ELSE _search_batch(pts, request, shard_selection)

\* Collection::search
search(pts, request, shard_selection) ==
    IF request.limit = 0
    THEN QueryOk(<<>>)
    ELSE LET results == _search_batch(pts, <<request>>, shard_selection)
         IN IF results.res # "Ok" THEN results ELSE QueryOk(results.val[1])

\* A quiescent collection of three shards holding some of the points, each
\* on the shard the hash ring maps it to, and a query a client or a peer
\* sends.
SearchInit ==
    /\ this_peer_id = 1
    /\ shards_holder =
          [s \in DataShardIds |->
              [peers |-> [p \in PeerIds |-> IF p = 1 THEN "Active" ELSE Absent],
               local |-> "Local"]]
    /\ shard_transfers = {}
    /\ transfer_tasks = [k \in TaskKeys |-> "NotFound"]
    /\ detached_tasks = {}
    /\ is_initialized = TRUE
    /\ last = [op |-> "new", res |-> "Ok", ret |-> FALSE, requested |-> {},
               arg |-> <<>>, registered |-> FALSE, task |-> "NotFound", repeat |-> FALSE]
    /\ \E stored \in SUBSET SearchPointIds :
          points = [s \in DataShardIds |-> {id \in stored : shard_of(id) = s}]
    /\ updates_lock = Unlocked
    /\ client_call = NoUpdate
    /\ peer_call = NoUpdate
    /\ last_read = NoRead
    /\ \E request \in SearchRequestBatches, shard_selection \in ShardSelections :
          query = [request |-> request, shard_selection |-> shard_selection,
                   search |-> NotCalled, search_batch |-> NotCalled]
    /\ AuxIdle

\* The request of a batch of one is sent to search.
Search ==
    /\ Len(query.request) = 1 /\ ~query.search.done
    /\ query' = [query EXCEPT !.search = search(points, query.request[1],
                                                query.shard_selection)]
    /\ UNCHANGED <<controlVars, auxVars, points, updates_lock, client_call, peer_call, last_read, concVars>>

\* The batch is sent to search_batch.
SearchBatch ==
    /\ ~query.search_batch.done
    /\ query' = [query EXCEPT !.search_batch = search_batch(points, query.request,
                                                            query.shard_selection)]
    /\ UNCHANGED <<controlVars, auxVars, points, updates_lock, client_call, peer_call, last_read, concVars>>

SearchNext ==
    \/ Search
    \/ SearchBatch

SearchSpec == SearchInit /\ [][SearchNext]_vars

\* ------------------------------------------------------ data plane: scroll
\* usize::MAX, for a usize of four bits.
UsizeMax == 15
\* ScrollRequest::default().limit
DefaultScrollLimit == 10

\* Option<T> is the set of at most one value.
unwrap_or(opt, default) == IF opt = {} THEN default ELSE CHOOSE x \in opt : TRUE

\* request.limit and request.offset a caller may send.
ScrollLimits == {{}, {0}, {1}, {2}, {UsizeMax}}
ScrollOffsets == {{}, {2}, {4}}
\* request.filter: none, or the points with an odd id.
ScrollFilters == {"None", "odd"}

filter_matches(filter, id) == filter = "None" \/ id % 2 = 1

\* Shards that answer a scroll with an error.
FailingShards == {{}, {1}}

ScrollOk(pts, next, queried) ==
    [res |-> "Ok", points |-> pts, next_page_offset |-> next, queried |-> queried]
ScrollErr(e, queried) ==
    [res |-> e, points |-> <<>>, next_page_offset |-> {}, queried |-> queried]

\* ReplicaSet::scroll_by: the first `limit` points of the shard that match
\* the filter and whose id is not below the offset, by ascending id.
shard_scroll_by(stored, offset, limit, filter) ==
    LET found == Ascending({id \in stored :
                               /\ filter_matches(filter, id)
                               /\ \A o \in offset : id >= o})
    IN [i \in 1..(IF limit < Len(found) THEN limit ELSE Len(found)) |-> [id |-> found[i]]]

\* Itertools::sorted_by_key(|point| point.id): a stable sort.
RECURSIVE sorted_by_key(_)
sorted_by_key(seq) ==
    IF seq = <<>> THEN <<>>
    ELSE LET rest == sorted_by_key(Tail(seq))
             k == Cardinality({i \in DOMAIN rest : rest[i].id < Head(seq).id})
         IN SubSeq(rest, 1, k) \o <<Head(seq)>> \o SubSeq(rest, k + 1, Len(rest))

\* Iterator::take
take(seq, n) == SubSeq(seq, 1, IF n < Len(seq) THEN n ELSE Len(seq))

\* Lines 1088-1094 with the extra point left on the page.
next_page_offset_without_pop(pts, limit, queried) ==
    IF Len(pts) < limit
    THEN ScrollOk(pts, {}, queried)
    ELSE IF pts = <<>>
    THEN ScrollErr("Panic", queried)
    ELSE ScrollOk(pts, {pts[Len(pts)].id}, queried)

\* Lines 1088-1098: a full list gives up its last point as the offset of
\* the next page; pop().unwrap() panics on an empty list.
next_page_offset(pts, limit, queried) ==
    IF Len(pts) < limit
    THEN ScrollOk(pts, {}, queried)
    ELSE IF pts = <<>>
    THEN ScrollErr("Panic", queried)
    ELSE ScrollOk(SubSeq(pts, 1, Len(pts) - 1), {pts[Len(pts)].id}, queried)

\* Collection::scroll_by; `failing` are the shards that answer with an error.
scroll_by(pts, request, shard_selection, failing) ==
    IF unwrap_or(request.limit, DefaultScrollLimit) = 0
    THEN ScrollErr("BadRequest", {})
    ELSE LET limit == (unwrap_or(request.limit, DefaultScrollLimit) + 1) % (UsizeMax + 1)
             target == target_shard(pts, shard_selection)
             queried == {target.shards[k] : k \in DOMAIN target.shards}
             retrieved_points ==
                 [k \in DOMAIN target.shards |->
                     shard_scroll_by(pts[target.shards[k]], request.offset, limit,
                                     request.filter)]
         IN IF target.res # "Ok"
            THEN ScrollErr(target.res, {})
            ELSE IF queried \cap failing # {}
            THEN ScrollErr("ServiceError", queried)
            ELSE next_page_offset(take(sorted_by_key(Flatten(retrieved_points)), limit),
                                  limit, queried)

ScrollRequests == [offset : ScrollOffsets, limit : ScrollLimits, filter : ScrollFilters]

\* A quiescent collection of three shards and a scroll request not sent yet.
ScrollInit ==
    /\ this_peer_id = 1
    /\ shards_holder =
          [s \in DataShardIds |->
              [peers |-> [p \in PeerIds |-> IF p = 1 THEN "Active" ELSE Absent],
               local |-> "Local"]]
    /\ shard_transfers = {}
    /\ transfer_tasks = [k \in TaskKeys |-> "NotFound"]
    /\ detached_tasks = {}
    /\ is_initialized = TRUE
    /\ last = [op |-> "new", res |-> "Ok", ret |-> FALSE, requested |-> {},
               arg |-> <<>>, registered |-> FALSE, task |-> "NotFound", repeat |-> FALSE]
    /\ \E stored \in SUBSET SearchPointIds :
          points = [s \in DataShardIds |-> {id \in stored : shard_of(id) = s}]
    /\ updates_lock = Unlocked
    /\ client_call = NoUpdate
    /\ peer_call = NoUpdate
    /\ last_read = NoRead
    /\ query = NoQuery
    /\ \E request \in ScrollRequests, shard_selection \in ShardSelections,
          failing \in FailingShards :
          scroll = [called |-> TRUE, request |-> request,
                    shard_selection |-> shard_selection, failing |-> failing,
                    pages |-> <<>>]
    /\ storage = NoStorage
    /\ snapshots = NoSnapshots
    /\ local_sync = NoSync
    /\ initiate = NoInitiate
    /\ ConcIdle

\* One scroll_by call; its page is appended to the pages received.
ScrollBy ==
    /\ scroll.called
    /\ scroll.pages = <<>>
    /\ scroll' = [scroll EXCEPT !.pages = Append(@, scroll_by(points, scroll.request,
                                                              scroll.shard_selection,
                                                              scroll.failing))]
    /\ UNCHANGED <<controlVars, dataVars, storage, snapshots, local_sync, initiate, concVars>>

\* The caller asks for the next page: the same request with the offset the
\* last page named.
ScrollNextPage ==
    /\ scroll.called
    /\ scroll.pages # <<>>
    /\ scroll.pages[Len(scroll.pages)].res = "Ok"
    /\ scroll.pages[Len(scroll.pages)].next_page_offset # {}
    /\ scroll' = [scroll EXCEPT
                     !.pages = Append(@, scroll_by(points,
                                   [scroll.request EXCEPT
                                       !.offset = scroll.pages[Len(scroll.pages)].next_page_offset],
                                   scroll.shard_selection, scroll.failing))]
    /\ UNCHANGED <<controlVars, dataVars, storage, snapshots, local_sync, initiate, concVars>>

ScrollNext ==
    \/ ScrollBy
    \/ ScrollNextPage

ScrollSpec == ScrollInit /\ [][ScrollNext]_vars

\* ------------------------------------------------------- storage version
\* u64::MAX, for a u64 of two bits: the largest major, minor or patch.
U64Max == 3

\* semver::Version without pre-release and build metadata.
Versions == [major : 0..U64Max, minor : 0..U64Max, patch : 0..U64Max]

\* Version's Ord: major, then minor, then patch.
version_less(a, b) ==
    \/ a.major < b.major
    \/ a.major = b.major /\ a.minor < b.minor
    \/ a.major = b.major /\ a.minor = b.minor /\ a.patch < b.patch

\* stored.patch + 1 in u64: an overflow panics in a build that checks
\* overflow and wraps in one that does not; [panic, value] are the outcomes.
patch_plus_one(patch) ==
    IF patch + 1 > U64Max
    THEN {[panic |-> TRUE, value |-> 0], [panic |-> FALSE, value |-> (patch + 1) % (U64Max + 1)]}
    ELSE {[panic |-> FALSE, value |-> patch + 1]}

\* Collection::can_upgrade_storage: the set of its outcomes, "true",
\* "false" or "panic".
can_upgrade_storage(stored, app) ==
    IF stored.major # app.major THEN {"false"}
    ELSE IF stored.minor # app.minor THEN {"false"}
    ELSE {IF sum.panic THEN "panic" ELSE IF sum.value < app.patch THEN "false" ELSE "true" :
            sum \in patch_plus_one(stored.patch)}

\* Collection::load, lines 215-237: the outcomes of the version check and
\* the version the directory holds after it.
load_version_check(stored, app) ==
    IF version_less(app, stored)
    THEN {[outcome |-> "panic", saved |-> stored]}
    ELSE IF stored # app
    THEN {IF can = "true"
          THEN [outcome |-> "proceed", saved |-> app]
          ELSE [outcome |-> "panic", saved |-> stored] :
            can \in can_upgrade_storage(stored, app)}
    ELSE {[outcome |-> "proceed", saved |-> stored]}

\* A collection directory with a stored version, and the application's.
VersionInit ==
    /\ this_peer_id = 1
    /\ shards_holder =
          [s \in ShardIds |->
              [peers |-> [p \in PeerIds |-> IF p = 1 THEN "Active" ELSE Absent],
               local |-> "Local"]]
    /\ shard_transfers = {}
    /\ transfer_tasks = [k \in TaskKeys |-> "NotFound"]
    /\ detached_tasks = {}
    /\ is_initialized = FALSE
    /\ last = [op |-> "new", res |-> "Ok", ret |-> FALSE, requested |-> {},
               arg |-> <<>>, registered |-> FALSE, task |-> "NotFound", repeat |-> FALSE]
    /\ DataIdle(ShardIds)
    /\ scroll = NoScroll
    /\ snapshots = NoSnapshots
    /\ local_sync = NoSync
    /\ initiate = NoInitiate
    /\ ConcIdle
    /\ \E stored \in Versions, app \in Versions :
          storage = [called |-> TRUE, stored |-> stored, app |-> app, saved |-> stored,
                     can_upgrade |-> "none", load |-> "none"]

\* can_upgrade_storage is called with the two versions.
CanUpgradeStorage ==
    /\ storage.called
    /\ storage.can_upgrade = "none"
    /\ \E can \in can_upgrade_storage(storage.stored, storage.app) :
          storage' = [storage EXCEPT !.can_upgrade = can]
    /\ UNCHANGED <<controlVars, dataVars, scroll, snapshots, local_sync, initiate, concVars>>

\* Collection::load reaches the end of its version check, or panics in it.
Load ==
    /\ storage.called
    /\ storage.load = "none"
    /\ \E r \in load_version_check(storage.stored, storage.app) :
          storage' = [storage EXCEPT !.load = r.outcome, !.saved = r.saved]
    /\ UNCHANGED <<controlVars, dataVars, scroll, snapshots, local_sync, initiate, concVars>>

VersionNext ==
    \/ CanUpgradeStorage
    \/ Load

VersionSpec == VersionInit /\ [][VersionNext]_vars

\* ------------------------------------------------------------- snapshots
\* A path component: a file name is a stem and an extension.
Name(stem, ext) == [stem |-> stem, ext |-> ext]
Dir(stem) == Name(stem, "")
ParentDir == Dir("..")

\* Collection::snapshots_path, an absolute path: the components from the root.
snapshots_path == <<Dir("snapshots")>>
\* A file outside the snapshots directory.
SecretPath == <<Dir("secret")>>
\* The snapshot an earlier create_snapshot left.
OldSnapshot == Name("old", "snapshot")

\* What a complete archive of the collection holds: the snapshot of every
\* shard, the version marker and the config.
ShardMember(shard_id) == [kind |-> "shard", id |-> shard_id]
VersionMember == [kind |-> "version", id |-> 0]
ConfigMember == [kind |-> "config", id |-> 0]
CompleteArchive(shard_ids) ==
    {ShardMember(s) : s \in shard_ids} \cup {VersionMember, ConfigMember}

\* A file: its canonical path, the archive members it holds, and whether
\* it was written to its end.
File(path, members, whole) == [path |-> path, members |-> members, whole |-> whole]

is_file(fs, path) == \E f \in fs.files : f.path = path
is_symlink(fs, path) == \E l \in fs.links : l.at = path
exists_here(fs, path) == path \in fs.dirs \/ is_file(fs, path)

\* Path::join: an absolute argument replaces the path.
join(path, name) == IF name.absolute THEN name.parts ELSE path \o name.parts

\* Path::starts_with: whole components are compared.
starts_with(path, base) ==
    Len(base) <= Len(path) /\ SubSeq(path, 1, Len(base)) = base

\* Symbolic links followed before the resolution of a path gives up.
MaxSymlinks == 2

\* The resolution of the components `rest` from the canonical path `cur`.
RECURSIVE resolve(_, _, _, _)
resolve(fs, cur, rest, hops) ==
    IF rest = <<>>
    THEN [ok |-> TRUE, path |-> cur]
    ELSE IF cur \notin fs.dirs
    THEN [ok |-> FALSE, path |-> <<>>]
    ELSE IF Head(rest) = ParentDir
    THEN resolve(fs, IF cur = <<>> THEN cur ELSE SubSeq(cur, 1, Len(cur) - 1),
                 Tail(rest), hops)
    ELSE IF is_symlink(fs, Append(cur, Head(rest)))
    THEN IF hops = 0
         THEN [ok |-> FALSE, path |-> <<>>]
         ELSE resolve(fs, <<>>,
                      (CHOOSE l \in fs.links : l.at = Append(cur, Head(rest))).to
                          \o Tail(rest),
                      hops - 1)
    ELSE IF exists_here(fs, Append(cur, Head(rest)))
    THEN resolve(fs, Append(cur, Head(rest)), Tail(rest), hops)
    ELSE [ok |-> FALSE, path |-> <<>>]

\* A canonicalize that checks that the path exists and resolves nothing.
canonicalize_unresolved(fs, path) ==
    IF resolve(fs, <<>>, path, MaxSymlinks).ok
    THEN [ok |-> TRUE, path |-> path]
    ELSE [ok |-> FALSE, path |-> <<>>]

\* Path::canonicalize: the path with every `..` and symbolic link resolved;
\* an error when a component is missing.
canonicalize(fs, path) == resolve(fs, <<>>, path, MaxSymlinks)

\* Path::exists follows symbolic links.
exists(fs, path) == resolve(fs, <<>>, path, MaxSymlinks).ok

PathOk(path) == [res |-> "Ok", path |-> path]
PathErr(e) == [res |-> e, path |-> <<>>]

\* Collection::get_snapshot_path
get_snapshot_path(fs, snapshot_name) ==
    LET snapshot_path == join(snapshots_path, snapshot_name)
        absolute_snapshot_path == canonicalize(fs, snapshot_path)
        absolute_snapshot_dir == canonicalize(fs, snapshots_path)
    IN IF ~absolute_snapshot_path.ok THEN PathErr("NotFound")
       ELSE IF ~absolute_snapshot_dir.ok THEN PathErr("NotFound")
       ELSE IF ~starts_with(absolute_snapshot_path.path, absolute_snapshot_dir.path)
       THEN PathErr("NotFound")
       ELSE IF ~exists(fs, snapshot_path) THEN PathErr("NotFound")
       ELSE PathOk(snapshot_path)

\* create_snapshot calls one run makes.
MaxSnapshotCalls == 2

\* chrono::Utc::now() at the second, and the name it gives the snapshot:
\* "{name}-{this_peer_id}-{time}.snapshot".
SnapshotTimes == {1, 2}
snapshot_name(time) == Name(<<"col-1-t1", "col-1-t2">>[time], "snapshot")

\* Path::with_extension that leaves the file name as it is.
with_extension_kept(name, ext) == name

\* Path::with_extension
with_extension(name, ext) == Name(name.stem, ext)

put_file(fs, file) ==
    [fs EXCEPT !.files = {f \in @ : f.path # file.path} \cup {file}]
remove_file(fs, path) == [fs EXCEPT !.files = {f \in @ : f.path # path}]

\* No create_snapshot call in flight.
NoCreate ==
    [pc |-> "idle", name |-> Name("", ""), todo |-> {}, temp_dir |-> {}, arc |-> {},
     res |-> "none"]

\* The call returns: the temporary directory and the temporary archive file,
\* which live in global_temp_dir, are deleted on drop.
Returned(fs, call, res) ==
    [fs |-> fs, create |-> [NoCreate EXCEPT !.name = call.name, !.res = res]]
Goes(fs, call, pc) == [fs |-> fs, create |-> [call EXCEPT !.pc = pc]]

\* Collection::create_snapshot from the step `call.pc` on: `ok` tells whether
\* the step succeeds, shard_id is the shard the loop visits next.
create_snapshot(fs, call, shard_id, ok) ==
    IF ~ok /\ call.pc # "copying" THEN Returned(fs, call, "ServiceError")
    ELSE IF call.pc = "tempdir" THEN Goes(fs, call, IF call.todo = {} THEN "version" ELSE "shards")
    ELSE IF call.pc = "shards"
    THEN Goes(fs, [call EXCEPT !.todo = @ \ {shard_id},
                               !.temp_dir = @ \cup {ShardMember(shard_id)}],
              IF call.todo = {shard_id} THEN "version" ELSE "shards")
    ELSE IF call.pc = "version"
    THEN Goes(fs, [call EXCEPT !.temp_dir = @ \cup {VersionMember}], "config")
    ELSE IF call.pc = "config"
    THEN Goes(fs, [call EXCEPT !.temp_dir = @ \cup {ConfigMember}], "tempfile")
    ELSE IF call.pc = "tempfile" THEN Goes(fs, call, "archive")
    ELSE IF call.pc = "archive" THEN Goes(fs, [call EXCEPT !.arc = call.temp_dir], "copy")
    ELSE IF call.pc = "copy"
    THEN IF snapshots_path \notin fs.dirs
         THEN Returned(fs, call, "ServiceError")
         ELSE Goes(put_file(fs, File(Append(snapshots_path, with_extension(call.name, "tmp")),
                                     call.arc, FALSE)),
                   call, "copying")
    ELSE IF call.pc = "copying"
    THEN IF ok
         THEN Goes(put_file(fs, File(Append(snapshots_path, with_extension(call.name, "tmp")),
                                     call.arc, TRUE)),
                   call, "rename")
         ELSE Returned(fs, call, "ServiceError")
    ELSE IF call.pc = "rename"
    THEN IF ~is_file(fs, Append(snapshots_path, with_extension(call.name, "tmp")))
         THEN Returned(fs, call, "ServiceError")
         ELSE LET tmp == CHOOSE f \in fs.files :
                             f.path = Append(snapshots_path, with_extension(call.name, "tmp"))
              IN Goes(put_file(remove_file(fs, tmp.path),
                               File(Append(snapshots_path, call.name), tmp.members, tmp.whole)),
                      call, "describe")
    ELSE Returned(fs, call, "Ok")

\* Names a caller of get_snapshot_path may send.
Relative(parts) == [absolute |-> FALSE, parts |-> parts]
Absolute(parts) == [absolute |-> TRUE, parts |-> parts]
SnapshotNames ==
    {Relative(<<OldSnapshot>>), Relative(<<Name("missing", "snapshot")>>),
     Relative(<<ParentDir, Dir("secret")>>), Relative(<<Dir("link")>>),
     Absolute(SecretPath), Absolute(Append(snapshots_path, OldSnapshot)),
     Relative(<<>>), Relative(<<ParentDir>>),
     Relative(<<ParentDir, Dir("snapshots"), OldSnapshot>>),
     Relative(<<OldSnapshot, ParentDir, ParentDir, Dir("secret")>>),
     Relative(<<snapshot_name(1)>>), Relative(<<with_extension(snapshot_name(1), "tmp")>>)}

\* The file systems a collection may find: the snapshots directory may be
\* missing, may hold an earlier snapshot, and may hold a symbolic link that
\* leads out of it or to that snapshot.
FileSystems ==
    {[dirs |-> {<<>>}, files |-> {File(SecretPath, {}, TRUE)}, links |-> {}]}
    \cup
    {[dirs |-> {<<>>, snapshots_path},
      files |-> {File(SecretPath, {}, TRUE)} \cup old,
      links |-> links] :
        old \in {{}, {File(Append(snapshots_path, OldSnapshot),
                           CompleteArchive(DataShardIds), TRUE)}},
        links \in {{}, {[at |-> Append(snapshots_path, Dir("link")), to |-> SecretPath]},
                   {[at |-> Append(snapshots_path, Dir("link")),
                     to |-> Append(snapshots_path, OldSnapshot)]}}}

\* A collection of three shards over one of the file systems.
SnapshotInit ==
    /\ this_peer_id = 1
    /\ shards_holder =
          [s \in DataShardIds |->
              [peers |-> [p \in PeerIds |-> IF p = 1 THEN "Active" ELSE Absent],
               local |-> "Local"]]
    /\ shard_transfers = {}
    /\ transfer_tasks = [k \in TaskKeys |-> "NotFound"]
    /\ detached_tasks = {}
    /\ is_initialized = TRUE
    /\ last = [op |-> "new", res |-> "Ok", ret |-> FALSE, requested |-> {},
               arg |-> <<>>, registered |-> FALSE, task |-> "NotFound", repeat |-> FALSE]
    /\ DataIdle(DataShardIds)
    /\ scroll = NoScroll
    /\ storage = NoStorage
    /\ local_sync = NoSync
    /\ initiate = NoInitiate
    /\ ConcIdle
    /\ \E fs \in FileSystems :
          snapshots = [called |-> TRUE, fs |-> fs, get |-> <<>>, create |-> NoCreate,
                       calls |-> 0]

\* get_snapshot_path is called and answers; the call is recorded with the
\* file system it saw.
GetSnapshotPath ==
    /\ snapshots.called
    /\ \E name \in SnapshotNames :
          snapshots' = [snapshots EXCEPT
                           !.get = <<[name |-> name, fs |-> snapshots.fs,
                                      result |-> get_snapshot_path(snapshots.fs, name)]>>]
    /\ UNCHANGED <<controlVars, dataVars, scroll, storage, local_sync, initiate, concVars>>

\* create_snapshot is called: the name is fixed, lines 1540-1548.
CreateSnapshotCall ==
    /\ snapshots.called
    /\ snapshots.create.pc = "idle"
    /\ snapshots.calls < MaxSnapshotCalls
    /\ \E time \in SnapshotTimes :
          snapshots' = [snapshots EXCEPT
                           !.calls = @ + 1,
                           !.create = [NoCreate EXCEPT !.pc = "tempdir",
                                                       !.name = snapshot_name(time),
                                                       !.todo = DOMAIN shards_holder]]
    /\ UNCHANGED <<controlVars, dataVars, scroll, storage, local_sync, initiate, concVars>>

\* The call in flight takes its next step, which succeeds or fails.
CreateSnapshotStep ==
    /\ snapshots.called
    /\ snapshots.create.pc # "idle"
    /\ \E ok \in BOOLEAN, shard_id \in DOMAIN shards_holder :
          /\ snapshots.create.pc = "shards" /\ ok => shard_id \in snapshots.create.todo
          /\ LET r == create_snapshot(snapshots.fs, snapshots.create, shard_id, ok)
             IN snapshots' = [snapshots EXCEPT !.fs = r.fs, !.create = r.create]
    /\ UNCHANGED <<controlVars, dataVars, scroll, storage, local_sync, initiate, concVars>>

SnapshotNext ==
    \/ GetSnapshotPath
    \/ CreateSnapshotCall
    \/ CreateSnapshotStep

SnapshotSpec == SnapshotInit /\ [][SnapshotNext]_vars

\* ------------------------------------------------------ sync_local_state
\* Shards of the collection whose local state is reconciled.
SyncShardIds == {0, 1}
\* Peer 4 holds no replica of these shards; it is an endpoint of transfers.
SyncTransferPeers == {1, 2, 3, 4}
\* SharedStorageConfig::node_type
NodeTypes == {"Normal", "Listener"}

\* check_transfer_conflicts_strict: the registered transfers of the same
\* shard that share an endpoint with `transfer` (None when there is none).
check_transfer_conflicts_strict(transfer, current_transfers) ==
    {t \in current_transfers :
        /\ t.shard_id = transfer.shard_id
        /\ \/ t.from = transfer.from
           \/ t.to = transfer.from
           \/ t.from = transfer.to
           \/ t.to = transfer.to}

\* Collection::get_outgoing_transfers
get_outgoing_transfers(c, peer_id) == {t \in c.transfers : t.from = peer_id}

\* TransferTasksPool::get_task_result: Some(true), Some(false) or None.
get_task_result(c, key) ==
    IF key \notin DOMAIN c.tasks THEN {}
    ELSE IF c.tasks[key] = "FinishedOk" THEN {TRUE}
    ELSE IF c.tasks[key] = "FinishedFail" THEN {FALSE}
    ELSE {}

\* TransferTasksPool::check_if_still_running
check_if_still_running(c, key) == key \in DOMAIN c.tasks /\ c.tasks[key] = "Running"

is_dummy(rs) == rs.local = "Dummy"

active_remote_shards(rs, this) == {p \in PeerIds \ {this} : rs.peers[p] = "Active"}

TransferCallback(fn, transfer) == [fn |-> fn, transfer |-> transfer]
PeerCallback(fn, peer_id, shard_id) == [fn |-> fn, peer_id |-> peer_id, shard_id |-> shard_id]

\* The report of lines 1925-1946 that takes a running task for a lost one.
report_transfer_running_too(c, transfer) ==
    IF get_task_result(c, TransferKey(transfer)) = {}
    THEN {TransferCallback("on_transfer_failure", transfer)}
    ELSE IF TRUE \in get_task_result(c, TransferKey(transfer))
    THEN {TransferCallback("on_transfer_success", transfer)}
    ELSE {TransferCallback("on_transfer_failure", transfer)}

\* Lines 1925-1946: the callbacks made for one outgoing transfer.
report_transfer(c, transfer) ==
    IF get_task_result(c, TransferKey(transfer)) = {}
    THEN IF ~check_if_still_running(c, TransferKey(transfer))
         THEN {TransferCallback("on_transfer_failure", transfer)}
         ELSE {}
    ELSE IF TRUE \in get_task_result(c, TransferKey(transfer))
    THEN {TransferCallback("on_transfer_success", transfer)}
    ELSE {TransferCallback("on_transfer_failure", transfer)}

\* Lines 1950-1976 with a listener node that gives up the last Active replica.
replica_state_callback_even_last(c, node_type, shard_id) ==
    LET this_peer_state == c.shards[shard_id].peers[c.this]
    IN IF this_peer_state = "Initializing"
       THEN {PeerCallback("on_finish_init", c.this, shard_id)}
       ELSE IF node_type = "Listener"
       THEN IF this_peer_state = "Active"
            THEN {PeerCallback("on_convert_to_listener", c.this, shard_id)}
            ELSE {}
       ELSE IF this_peer_state = "Listener"
       THEN {PeerCallback("on_convert_from_listener", c.this, shard_id)}
       ELSE {}

\* Lines 1950-1976: the callback made for the state of this peer's replica
\* of one shard; after a callback the loop goes on to the next shard.
replica_state_callback(c, node_type, shard_id) ==
    LET this_peer_state == c.shards[shard_id].peers[c.this]
        is_last_active == Cardinality(ActiveReplicas(c.shards[shard_id])) = 1
    IN IF this_peer_state = "Initializing"
       THEN {PeerCallback("on_finish_init", c.this, shard_id)}
       ELSE IF node_type = "Listener"
       THEN IF this_peer_state = "Active" /\ ~is_last_active
            THEN {PeerCallback("on_convert_to_listener", c.this, shard_id)}
            ELSE {}
       ELSE IF this_peer_state = "Listener"
       THEN {PeerCallback("on_convert_from_listener", c.this, shard_id)}
       ELSE {}

RecoveryTransfer(c, shard_id, replica_id) ==
    [shard_id |-> shard_id, from |-> replica_id, to |-> c.this, sync |-> TRUE]

\* Lines 1978-2005 without the conflict check.
recovery_requests_without_conflict_check(c, node_type, shard_id) ==
    IF replica_state_callback(c, node_type, shard_id) # {} THEN {{}}
    ELSE IF c.shards[shard_id].peers[c.this] # "Dead" \/ is_dummy(c.shards[shard_id])
    THEN {{}}
    ELSE IF active_remote_shards(c.shards[shard_id], c.this) = {} THEN {{}}
    ELSE {{RecoveryTransfer(c, shard_id, r)} :
            r \in active_remote_shards(c.shards[shard_id], c.this)}

\* Lines 1978-2005: the transfer requests the loop may make for one shard;
\* the source is the first Active remote replica, in the order the replica
\* set lists them, whose transfer conflicts with no registered one.
recovery_requests(c, node_type, shard_id) ==
    IF replica_state_callback(c, node_type, shard_id) # {} THEN {{}}
    ELSE IF c.shards[shard_id].peers[c.this] # "Dead" \/ is_dummy(c.shards[shard_id])
    THEN {{}}
    ELSE LET free == {r \in active_remote_shards(c.shards[shard_id], c.this) :
                        check_transfer_conflicts_strict(RecoveryTransfer(c, shard_id, r),
                                                        c.transfers) = {}}
         IN IF free = {} THEN {{}} ELSE {{RecoveryTransfer(c, shard_id, r)} : r \in free}

\* Collection::sync_local_state: the runs it may make, each with the
\* callbacks and the transfer requests it makes.
sync_local_state(c, node_type) ==
    {[transfer_callbacks |->
          UNION {report_transfer(c, t) : t \in get_outgoing_transfers(c, c.this)},
      peer_callbacks |->
          UNION {replica_state_callback(c, node_type, s) : s \in DOMAIN c.shards},
      requested |-> UNION {choice[s] : s \in DOMAIN c.shards}] :
        choice \in {f \in [DOMAIN c.shards ->
                              UNION {recovery_requests(c, node_type, s) : s \in DOMAIN c.shards}] :
                      \A s \in DOMAIN c.shards : f[s] \in recovery_requests(c, node_type, s)}}

\* Replica maps a peer may find for shard 0: this peer (1) in any state but
\* Partial, the others Active, Dead or without replica.
SyncReplicaSets ==
    {[peers |-> m, local |-> l] :
        m \in {n \in [PeerIds -> ReplicaStates \cup {Absent}] :
                 /\ n[1] # "Partial"
                 /\ n[2] \in {Absent, "Active", "Dead"}
                 /\ n[3] \in {Absent, "Active", "Dead"}
                 /\ \E p \in PeerIds : n[p] # Absent},
        l \in LocalSlots} \cap
    {rs \in [peers : [PeerIds -> ReplicaStates \cup {Absent}], local : LocalSlots] :
        IF rs.peers[1] = Absent THEN rs.local = "NoLocal" ELSE rs.local \in {"Local", "Dummy"}}

\* Replica maps for shard 1: peer 2 Active, this peer in one of four states.
SyncOtherReplicaSets ==
    {[peers |-> [p \in PeerIds |-> IF p = 1 THEN s ELSE IF p = 2 THEN "Active" ELSE Absent],
      local |-> "Local"] : s \in {"Active", "Dead", "Listener", "Initializing"}}

SyncTransfer(shard_id, from, to, is_sync) ==
    [shard_id |-> shard_id, from |-> from, to |-> to, sync |-> is_sync]

\* Transfers the registry may hold.
SyncTransfers ==
    {SyncTransfer(0, 1, 2, FALSE), SyncTransfer(1, 1, 2, TRUE),
     SyncTransfer(0, 2, 4, FALSE), SyncTransfer(0, 3, 4, FALSE)}

\* Changes a caller of handle_replica_changes may send; 2 is not a shard.
SyncChanges == [shard_id : {0, 1, 2}, peer_id : PeerIds]

\* A peer as Collection::load finds it: replica maps and registered
\* transfers as they were saved, the tasks of its outgoing transfers in any
\* state.
SyncInit ==
    /\ this_peer_id = 1
    /\ \E rs0 \in SyncReplicaSets, rs1 \in SyncOtherReplicaSets :
          shards_holder = [s \in SyncShardIds |-> IF s = 0 THEN rs0 ELSE rs1]
    /\ shard_transfers \in SUBSET SyncTransfers
    /\ \E status \in TaskStatuses :
          transfer_tasks = [k \in {TransferKey(SyncTransfer(0, 1, 2, FALSE)),
                                   TransferKey(SyncTransfer(1, 1, 2, TRUE))} |->
                               IF k.shard_id = 0 THEN status ELSE "NotFound"]
    /\ detached_tasks = {}
    /\ is_initialized = TRUE
    /\ last = [op |-> "new", res |-> "Ok", ret |-> FALSE, requested |-> {},
               arg |-> <<>>, registered |-> FALSE, task |-> "NotFound", repeat |-> FALSE]
    /\ DataIdle(SyncShardIds)
    /\ scroll = NoScroll
    /\ storage = NoStorage
    /\ snapshots = NoSnapshots
    /\ initiate = NoInitiate
    /\ ConcIdle
    /\ \E node_type \in NodeTypes :
          local_sync = [called |-> TRUE, node_type |-> node_type, ran |-> FALSE]

\* One run of sync_local_state, recorded with the state it found.
SyncLocalState ==
    /\ local_sync.called
    /\ \E run \in sync_local_state(Col, local_sync.node_type) :
          local_sync' = [called |-> TRUE, node_type |-> local_sync.node_type, ran |-> TRUE,
                         col |-> Col, run |-> run]
    /\ UNCHANGED <<controlVars, dataVars, scroll, storage, snapshots, initiate, concVars>>

SyncNext == SyncLocalState

SyncSpec == SyncInit /\ [][SyncNext]_vars

\* --------------------------------------------------- handle_replica_changes
\* Two shards with their replicas, no transfer.
ChangesInit ==
    /\ this_peer_id = 1
    /\ \E rs0 \in SyncReplicaSets, rs1 \in SyncOtherReplicaSets :
          shards_holder = [s \in SyncShardIds |-> IF s = 0 THEN rs0 ELSE rs1]
    /\ shard_transfers = {}
    /\ transfer_tasks = [k \in TaskKeys |-> "NotFound"]
    /\ detached_tasks = {}
    /\ is_initialized = TRUE
    /\ last = [op |-> "new", res |-> "Ok", ret |-> FALSE, requested |-> {},
               arg |-> <<>>, registered |-> FALSE, task |-> "NotFound", repeat |-> FALSE]
    /\ DataIdle(SyncShardIds)
    /\ AuxIdle

\* handle_replica_changes with no change or one; `last` keeps the list.
ReplicaChange ==
    \E replica_changes \in SeqsUpTo(SyncChanges, 1) :
       Apply(handle_replica_changes(Col, replica_changes), "handle_replica_changes",
             [NoCall EXCEPT !.arg = replica_changes])

ChangesNext == ReplicaChange

ChangesSpec == ChangesInit /\ [][ChangesNext]_vars

\* ----------------------------------------------- initiate_shard_transfer
\* Duration::from_secs(60): the seconds wait_for waits at most.
WaitSecs == 60

\* ReplicaSet::init_empty_local_shard: the placeholder becomes an empty
\* local replica.
init_empty_local_shard(rs) == [rs EXCEPT !.local = "Local"]

\* The predicate wait_for is called with, lines 709-713.
shard_transfer_requested(transfers, shard_id, this) ==
    \E shard_transfer \in transfers :
       shard_transfer.shard_id = shard_id /\ shard_transfer.to = this

\* Lines 686-704: the call up to wait_for; a missing shard ends it.
initiate_shard_transfer(c, shard_id) ==
    IF shard_id \notin DOMAIN c.shards
    THEN Err(c, "ServiceError")
    ELSE LET rs1 == IF ~is_local(c.shards[shard_id])
                    THEN un_proxify_local(c.shards[shard_id])
                    ELSE c.shards[shard_id]
             rs2 == IF is_dummy(rs1) THEN init_empty_local_shard(rs1) ELSE rs1
         IN Ok([c EXCEPT !.shards[shard_id] = rs2])

\* wait_for and the match of lines 719-737: the waiter looks at the set as
\* it is when it runs; it returns Ok when the predicate holds and Timeout
\* when the time is up; the empty set means it keeps waiting.
wait_for(transfers, shard_id, this, elapsed) ==
    IF shard_transfer_requested(transfers, shard_id, this) THEN {"Ok"}
    ELSE IF elapsed >= WaitSecs THEN {"Timeout"}
    ELSE {}

\* What `initiate` holds of a call: the shard, where the call stands, its
\* result, the seconds waited, and whether the registered transfers held a
\* transfer of the shard to this peer at some moment of the wait.
Initiated(shard_id, pc, res, elapsed, seen) ==
    [called |-> TRUE, shard_id |-> shard_id, pc |-> pc, res |-> res,
     elapsed |-> elapsed, seen |-> seen]

\* A peer whose replica of shard 0 awaits a transfer; peer 2 is Active.
InitiateInit ==
    /\ this_peer_id = 1
    /\ \E state \in {Absent, "Dead"}, local \in LocalSlots :
          /\ state = Absent <=> local = "NoLocal"
          /\ shards_holder =
                [s \in ShardIds |->
                    [peers |-> [p \in PeerIds |->
                                   IF p = 1 THEN state ELSE IF p = 2 THEN "Active" ELSE Absent],
                     local |-> local]]
    /\ shard_transfers = {}
    /\ transfer_tasks = [k \in TaskKeys |-> "NotFound"]
    /\ detached_tasks = {}
    /\ is_initialized = TRUE
    /\ last = [op |-> "new", res |-> "Ok", ret |-> FALSE, requested |-> {},
               arg |-> <<>>, registered |-> FALSE, task |-> "NotFound", repeat |-> FALSE]
    /\ DataIdle(ShardIds)
    /\ scroll = NoScroll
    /\ storage = NoStorage
    /\ snapshots = NoSnapshots
    /\ local_sync = NoSync
    /\ initiate = Initiated(0, "idle", "none", 0, FALSE)
    /\ ConcIdle

\* The state after an operation of the consensus thread with outcome r; the
\* call in flight notes a transfer to this peer that is registered now.
ApplyWhileWaiting(r, op) ==
    /\ this_peer_id' = r.col.this
    /\ shards_holder' = r.col.shards
    /\ shard_transfers' = r.col.transfers
    /\ transfer_tasks' = r.col.tasks
    /\ detached_tasks' = r.col.detached
    /\ is_initialized' = r.col.ready
    /\ last' = [op |-> op, res |-> r.res, ret |-> r.ret, requested |-> r.col.requested,
                arg |-> NoCall.arg, registered |-> NoCall.registered, task |-> NoCall.task,
                repeat |-> NoCall.repeat]
    /\ initiate' = [initiate EXCEPT
                       !.seen = @ \/ /\ initiate.pc = "waiting"
                                     /\ shard_transfer_requested(r.col.transfers,
                                                                 initiate.shard_id, r.col.this)]
    /\ UNCHANGED <<dataVars, scroll, storage, snapshots, local_sync, concVars>>

\* initiate_shard_transfer is called and reaches wait_for, or returns at once.
InitiateShardTransfer ==
    /\ initiate.pc = "idle"
    /\ \E shard_id \in InputShardIds :
          LET r == initiate_shard_transfer(Col, shard_id)
          IN /\ shards_holder' = r.col.shards
             /\ initiate' = IF r.res = "Ok"
                            THEN Initiated(shard_id, "waiting", "none", 0,
                                           shard_transfer_requested(shard_transfers, shard_id,
                                                                    this_peer_id))
                            ELSE Initiated(shard_id, "returned", r.res, 0, FALSE)
    /\ UNCHANGED <<this_peer_id, shard_transfers, transfer_tasks, detached_tasks,
                   is_initialized, last, dataVars, scroll, storage, snapshots, local_sync, concVars>>

\* A second passes while the call waits.
Tick ==
    /\ initiate.pc = "waiting"
    /\ initiate.elapsed < WaitSecs
    /\ initiate' = [initiate EXCEPT !.elapsed = @ + 1]
    /\ UNCHANGED <<controlVars, dataVars, scroll, storage, snapshots, local_sync, concVars>>

\* The waiter runs and the call returns.
InitiateReturn ==
    /\ initiate.pc = "waiting"
    /\ \E res \in wait_for(shard_transfers, initiate.shard_id, this_peer_id, initiate.elapsed) :
          initiate' = [initiate EXCEPT !.pc = "returned", !.res = res]
    /\ UNCHANGED <<controlVars, dataVars, scroll, storage, snapshots, local_sync, concVars>>

\* Consensus starts a transfer while the call has not returned.
ConsensusStart ==
    /\ initiate.pc # "returned"
    /\ \E t \in ShardTransfers :
          /\ t \in shard_transfers \/ Cardinality(shard_transfers) < MaxTransfers
          /\ ApplyWhileWaiting(start_shard_transfer(Col, t), "start_shard_transfer")

\* Consensus aborts a transfer while the call has not returned.
ConsensusAbort ==
    /\ initiate.pc # "returned"
    /\ \E t \in shard_transfers :
          \E r \in abort_shard_transfer(Col, TransferKey(t)) :
             ApplyWhileWaiting(r, "abort_shard_transfer")

InitiateNext ==
    \/ InitiateShardTransfer
    \/ Tick
    \/ InitiateReturn
    \/ ConsensusStart
    \/ ConsensusAbort

InitiateSpec == InitiateInit /\ [][InitiateNext]_vars

\* ------------------------------------------- the ShardHolder read guard
\* The guards on shards_holder a call takes and gives back, in program
\* order: "read" is `self.shards_holder.read().await`, "drop" the end of the
\* guard's scope.  The caller's guard is held from the first step to the last.

\* Collection::get_transfer, get_transfers and state each take a guard of
\* their own for the time of the call.
get_transfer_guards == <<"read", "drop">>

\* Collection::_abort_shard_transfer under the guard of its caller: it asks
\* get_transfer for the transfer (line 647) unless the shard does not exist.
_abort_shard_transfer_guards(c, key) ==
    IF key.shard_id \notin DOMAIN c.shards THEN <<>> ELSE get_transfer_guards

\* A call in terms of its guards and its outcome.
Guarded(guards, r) == [guards |-> guards, r |-> r]

\* Collection::abort_shard_transfer
abort_shard_transfer_guards(c, key) ==
    {Guarded(<<"read">> \o _abort_shard_transfer_guards(c, key) \o <<"drop">>, r) :
        r \in abort_shard_transfer(c, key)}

\* The loop of lines 372-375 with the guards of every _abort_shard_transfer.
RECURSIVE AbortRelatedGuards(_, _)
AbortRelatedGuards(c, todo) ==
    IF todo = {}
    THEN {Guarded(<<>>, Ok(c))}
    ELSE UNION {UNION {IF r.res = "Ok"
                       THEN {Guarded(_abort_shard_transfer_guards(c, TransferKey(t)) \o rest.guards,
                                     rest.r) :
                               rest \in AbortRelatedGuards(r.col, todo \ {t})}
                       ELSE {Guarded(_abort_shard_transfer_guards(c, TransferKey(t)), r)} :
                         r \in _abort_shard_transfer(c, TransferKey(t))} :
                  t \in todo}

\* Collection::set_shard_replica_state: the guard of line 321, those of the
\* aborts, and that of self.state() (line 380) while the latch is not set.
set_shard_replica_state_guards(c, shard_id, peer_id, state, from_state) ==
    IF shard_id \notin DOMAIN c.shards
    THEN {Guarded(<<"read", "drop">>, Err(c, "NotFound"))}
    ELSE LET rs == c.shards[shard_id]
         IN IF from_state # NoFromState /\ peer_state(rs, peer_id) # from_state
            THEN {Guarded(<<"read", "drop">>, Err(c, "BadInput"))}
            ELSE IF state # "Active" /\ ActiveReplicas(rs) = {peer_id}
            THEN {Guarded(<<"read", "drop">>, Err(c, "BadInput"))}
            ELSE LET c1 == [c EXCEPT !.shards[shard_id] =
                                ensure_replica_with_state(rs, peer_id, state)]
                     aborted == IF state = "Dead"
                                THEN AbortRelatedGuards(c1, get_related_transfers(c1, shard_id, peer_id))
                                ELSE {Guarded(<<>>, Ok(c1))}
                 IN UNION {IF a.r.res # "Ok"
                           THEN {Guarded(<<"read">> \o a.guards \o <<"drop">>, a.r)}
                           ELSE {Guarded(<<"read">> \o a.guards
                                            \o (IF ~a.r.col.ready THEN get_transfer_guards ELSE <<>>)
                                            \o <<"drop">>,
                                         Ok(c2)) :
                                   c2 \in RequestRecovery(CheckInitialized(a.r.col),
                                                          shard_id, peer_id, state)} :
                             a \in aborted}

\* Lines 1978-1979: the shards for which sync_local_state asks get_transfers.
recovering_shards(c, node_type) ==
    {s \in DOMAIN c.shards :
        /\ replica_state_callback(c, node_type, s) = {}
        /\ c.shards[s].peers[c.this] = "Dead"
        /\ ~is_dummy(c.shards[s])}

\* Collection::sync_local_state: the guard of line 1914, that of
\* get_outgoing_transfers (line 1920) and one get_transfers for every shard
\* it tries to recover; it changes no state.
sync_local_state_guards(c, node_type) ==
    {Guarded(<<"read">> \o get_transfer_guards
                 \o [i \in 1..(2 * Cardinality(recovering_shards(c, node_type))) |->
                        IF i % 2 = 1 THEN "read" ELSE "drop"]
                 \o <<"drop">>,
             Ok(c))}

\* tokio::sync::RwLock is fair: a request waits behind every request that
\* waits already, and a reader is not let in past a waiting writer.
\* holder_lock: the call (op, guards, r), `at` the step it is at, `held` the
\* read guards its task holds, `writer` the state of a task that asks for
\* shards_holder.write(), `queue` the waiting requests, oldest first.
Locked(pc, op, g, at, held, writer, queue) ==
    [called |-> TRUE, pc |-> pc, op |-> op, guards |-> g.guards, r |-> g.r, at |-> at,
     held |-> held, writer |-> writer, queue |-> queue]

\* A request is let in at once only when nothing waits.
read_ready(lock) == lock.writer # "holding" /\ lock.queue = <<>>
write_ready(lock) == lock.held = 0 /\ lock.queue = <<>>

\* One shard with a replica on this peer (1) and an Active one on peer 2,
\* any transfers between the two, the task of an outgoing one running.
LockInit ==
    /\ this_peer_id = 1
    /\ \E state \in {"Active", "Dead", "Partial"} :
          shards_holder =
              [s \in ShardIds |->
                  [peers |-> [p \in PeerIds |->
                                 IF p = 1 THEN state ELSE IF p = 2 THEN "Active" ELSE Absent],
                   local |-> "Local"]]
    /\ shard_transfers \in {T \in SUBSET ShardTransfers : Cardinality(T) <= MaxTransfers}
    /\ transfer_tasks = [k \in TaskKeys |->
                            IF \E t \in shard_transfers : KeyCheck(k, t) /\ t.from = 1
                            THEN "Running" ELSE "NotFound"]
    /\ detached_tasks = {}
    /\ is_initialized \in BOOLEAN
    /\ last = [op |-> "new", res |-> "Ok", ret |-> FALSE, requested |-> {},
               arg |-> <<>>, registered |-> FALSE, task |-> "NotFound", repeat |-> FALSE]
    /\ DataIdle(ShardIds)
    /\ scroll = NoScroll
    /\ storage = NoStorage
    /\ snapshots = NoSnapshots
    /\ local_sync = NoSync
    /\ initiate = NoInitiate
    /\ holder_lock = Locked("idle", "none", Guarded(<<>>, Ok(Col)), 1, 0, "idle", <<>>)
    /\ in_flight = NoCalls

\* The calls of the claim, with the guards and the outcome of each.
GuardedCalls ==
    [op : {"abort_shard_transfer"}, g : UNION {abort_shard_transfer_guards(Col, key) :
                                                 key \in ShardTransferKeys}]
    \cup [op : {"set_shard_replica_state"},
          g : UNION {set_shard_replica_state_guards(Col, 0, peer_id, "Dead", NoFromState) :
                       peer_id \in TransferPeers}]
    \cup [op : {"sync_local_state"},
          g : UNION {sync_local_state_guards(Col, node_type) : node_type \in NodeTypes}]

\* A call starts.
GuardedCall ==
    /\ holder_lock.pc = "idle"
    /\ \E call \in GuardedCalls :
          holder_lock' = [holder_lock EXCEPT !.pc = "running", !.op = call.op,
                                             !.guards = call.g.guards, !.r = call.g.r]
    /\ UNCHANGED <<controlVars, dataVars, auxVars, in_flight>>

\* The call takes its next guard, or queues for it, or gives one back.
GuardStep ==
    /\ holder_lock.pc = "running"
    /\ holder_lock.at <= Len(holder_lock.guards)
    /\ "task" \notin {holder_lock.queue[i] : i \in DOMAIN holder_lock.queue}
    /\ holder_lock' =
          IF holder_lock.guards[holder_lock.at] = "drop"
          THEN [holder_lock EXCEPT !.held = @ - 1, !.at = @ + 1]
          ELSE IF read_ready(holder_lock)
          THEN [holder_lock EXCEPT !.held = @ + 1, !.at = @ + 1]
          ELSE [holder_lock EXCEPT !.queue = Append(@, "task")]
    /\ UNCHANGED <<controlVars, dataVars, auxVars, in_flight>>

\* Another task asks for shards_holder.write().
WriterRequest ==
    /\ holder_lock.called
    /\ holder_lock.writer = "idle"
    /\ holder_lock' =
          IF write_ready(holder_lock)
          THEN [holder_lock EXCEPT !.writer = "holding"]
          ELSE [holder_lock EXCEPT !.writer = "waiting", !.queue = Append(@, "writer")]
    /\ UNCHANGED <<controlVars, dataVars, auxVars, in_flight>>

\* The oldest waiting request is let in.
Grant ==
    /\ holder_lock.called
    /\ holder_lock.queue # <<>>
    /\ IF Head(holder_lock.queue) = "writer"
       THEN /\ holder_lock.held = 0
            /\ holder_lock' = [holder_lock EXCEPT !.writer = "holding", !.queue = Tail(@)]
       ELSE /\ holder_lock.writer # "holding"
            /\ holder_lock' = [holder_lock EXCEPT !.held = @ + 1, !.at = @ + 1,
                                                  !.queue = Tail(@)]
    /\ UNCHANGED <<controlVars, dataVars, auxVars, in_flight>>

\* The writer gives its guard back.
WriterRelease ==
    /\ holder_lock.called
    /\ holder_lock.writer = "holding"
    /\ holder_lock' = [holder_lock EXCEPT !.writer = "done"]
    /\ UNCHANGED <<controlVars, dataVars, auxVars, in_flight>>

\* The call returns with its outcome.
GuardedReturn ==
    /\ holder_lock.pc = "running"
    /\ holder_lock.at > Len(holder_lock.guards)
    /\ this_peer_id' = holder_lock.r.col.this
    /\ shards_holder' = holder_lock.r.col.shards
    /\ shard_transfers' = holder_lock.r.col.transfers
    /\ transfer_tasks' = holder_lock.r.col.tasks
    /\ detached_tasks' = holder_lock.r.col.detached
    /\ is_initialized' = holder_lock.r.col.ready
    /\ last' = [op |-> holder_lock.op, res |-> holder_lock.r.res, ret |-> holder_lock.r.ret,
                requested |-> holder_lock.r.col.requested,
                arg |-> NoCall.arg, registered |-> NoCall.registered, task |-> NoCall.task,
                repeat |-> NoCall.repeat]
    /\ holder_lock' = [holder_lock EXCEPT !.pc = "returned"]
    /\ UNCHANGED <<dataVars, auxVars, in_flight>>

LockNext ==
    \/ GuardedCall
    \/ GuardStep
    \/ WriterRequest
    \/ Grant
    \/ WriterRelease
    \/ GuardedReturn

LockSpec == LockInit /\ [][LockNext]_vars

\* ------------------------------------------ calls that run concurrently
\* Two calls of one peer run at the same time under the shared read guard of
\* the ShardHolder.  A call is a record: the operation, its transfer (the
\* key of an abort is that of the transfer), the statement it is at, what
\* its get_transfer found, whether LocalShard::build succeeds for it, and
\* its result.  Every awaited helper is one step.
Call(op, t, pc, build_ok) ==
    [op |-> op, t |-> t, pc |-> pc, found |-> {}, build_ok |-> build_ok,
     res |-> "none", ret |-> FALSE]

Stepped(c, call) == [col |-> c, call |-> call]

Done(call, res) == [call EXCEPT !.pc = "done", !.res = res]

\* Collection::finish_shard_transfer, statement by statement.
finish_step(c, call) ==
    LET t == call.t
    IN IF call.pc = "stop"
       THEN {Stepped(stop_if_exists(c, TransferKey(t)), [call EXCEPT !.pc = "sender"])}
       ELSE IF call.pc = "sender"
       THEN {Stepped(IF c.this = t.from
                     THEN handle_transferred_shard_proxy(c, t.shard_id, t.to, t.sync) ELSE c,
                     [call EXCEPT !.pc = "receiver"])}
       ELSE IF call.pc = "receiver"
       THEN {Stepped(IF c.this = t.to THEN finalize_partial_shard(c, t.shard_id) ELSE c,
                     [call EXCEPT !.pc = "route"])}
       ELSE IF call.pc = "route"
       THEN {Stepped(IF c.this # t.from
                     THEN change_remote_shard_route(c, t.shard_id, t.from, t.to, t.sync) ELSE c,
                     [call EXCEPT !.pc = "deregister"])}
       ELSE {Stepped(register_finish_transfer(c, TransferKey(t)), Done(call, "Ok"))}

\* Collection::_abort_shard_transfer, statement by statement, under the
\* read guard abort_shard_transfer took.
abort_step(c, call) ==
    LET key == TransferKey(call.t)
    IN IF call.pc = "stop"
       THEN {Stepped(stop_if_exists(c, key),
                     IF key.shard_id \notin DOMAIN c.shards
                     THEN Done(call, "BadRequest")
                     ELSE [call EXCEPT !.pc = "get_transfer"])}
       ELSE IF call.pc = "get_transfer"
       THEN {Stepped(c, [call EXCEPT !.pc = "replica", !.found = found]) :
               found \in IF get_transfer(c, key) = {}
                         THEN {{}} ELSE {{t} : t \in get_transfer(c, key)}}
       ELSE IF call.pc = "replica"
       THEN LET rs == c.shards[key.shard_id]
                rm == remove_peer(rs, c.this, key.to)
            IN IF \E t \in call.found : t.sync
               THEN {Stepped([c EXCEPT !.shards[key.shard_id] =
                                 set_replica_state(rs, key.to, "Dead")],
                             [call EXCEPT !.pc = "revert"])}
               ELSE IF ~rm.ok
               THEN {Stepped(c, Done(call, "BadRequest"))}
               ELSE {Stepped([c EXCEPT !.shards[key.shard_id] = rm.rs],
                             [call EXCEPT !.pc = "revert"])}
       ELSE IF call.pc = "revert"
       THEN {Stepped(IF c.this = key.from
                     THEN revert_proxy_shard_to_local(c, key.shard_id) ELSE c,
                     [call EXCEPT !.pc = "deregister"])}
       ELSE {Stepped(register_finish_transfer(c, key), Done(call, "Ok"))}

\* Collection::start_shard_transfer, statement by statement: the
\* registration, the replica of the receiver (both under the read guard of
\* line 513), then send_shard after the guard is given back.
start_step(c, call) ==
    LET t == call.t
    IN IF call.pc = "register"
       THEN {Stepped(register_start_shard_transfer(c, t),
                     IF t.shard_id \notin DOMAIN c.shards
                     THEN Done(call, "ServiceError")
                     ELSE [call EXCEPT !.pc = "partial"])}
       ELSE IF call.pc = "partial"
       THEN LET rs == c.shards[t.shard_id]
                local == is_local(rs)
                do_transfer == local /\ c.this = t.from
                next == IF do_transfer
                        THEN [call EXCEPT !.pc = "send", !.ret = TRUE]
                        ELSE Done(call, "Ok")
            IN IF ~local /\ c.this = t.to
               THEN IF ~call.build_ok
                    THEN {Stepped(c, Done(call, "ServiceError"))}
                    ELSE {Stepped([c EXCEPT !.shards[t.shard_id] = set_local(rs, c.this, "Partial")],
                                  next)}
               ELSE {Stepped([c EXCEPT !.shards[t.shard_id] = set_replica_state(rs, t.to, "Partial")],
                             next)}
       ELSE {Stepped(send_shard(c, t), Done(call, "Ok"))}

\* The steps of a call left to itself, to its end.
RECURSIVE run_alone(_, _)
run_alone(c, call) ==
    IF call.pc = "done"
    THEN {Stepped(c, call)}
    ELSE UNION {run_alone(s.col, s.call) :
                  s \in IF call.op = "finish_shard_transfer" THEN finish_step(c, call)
                        ELSE IF call.op = "abort_shard_transfer" THEN abort_step(c, call)
                        ELSE start_step(c, call)}

\* The transfer the calls are about, and one of a shard that does not exist.
RaceTransfer(is_sync) == [shard_id |-> 0, from |-> 1, to |-> 2, sync |-> is_sync]
NoShardTransfer == [shard_id |-> 1, from |-> 1, to |-> 2, sync |-> FALSE]

\* No call in this slot.
NoneCall == Call("none", RaceTransfer(FALSE), "done", TRUE)

RaceCalls ==
    {NoneCall}
    \cup {Call("finish_shard_transfer", RaceTransfer(s), "stop", TRUE) : s \in BOOLEAN}
    \cup {Call("abort_shard_transfer", RaceTransfer(FALSE), "stop", TRUE)}
    \cup {Call("start_shard_transfer", RaceTransfer(s), "register", b) : s, b \in BOOLEAN}
    \cup {Call("start_shard_transfer", NoShardTransfer, "register", TRUE)}

\* The collection before the calls: peer 1 holds an Active replica of the
\* shard, peers 2 and 3 hold one or not; then the transfer from 1 to 2 has
\* been started or not, and the task of the sender has wrapped the replica.
RaceBase(this, on_two, on_three) ==
    [this |-> this,
     shards |-> [s \in ShardIds |->
                    [peers |-> [p \in PeerIds |->
                                   IF p = 1 THEN "Active"
                                   ELSE IF p = 2 THEN on_two ELSE on_three],
                     local |-> IF (IF this = 1 THEN "Active" ELSE IF this = 2 THEN on_two
                                   ELSE on_three) = Absent
                               THEN "NoLocal" ELSE "Local"]],
     transfers |-> {}, tasks |-> [k \in TaskKeys |-> "NotFound"], detached |-> {},
     ready |-> TRUE, requested |-> {}]

RaceStarts ==
    LET bases == {RaceBase(this, on_two, on_three) :
                    this \in PeerIds, on_two \in {Absent, "Active", "Dead"},
                    on_three \in {Absent, "Active"}}
        started == {start_shard_transfer(c, RaceTransfer(s)).col : c \in bases, s \in BOOLEAN}
        wrapped == {TaskStep(c, TransferKey(RaceTransfer(FALSE)), "proxify") :
                      c \in {d \in started : d.this = 1}}
    IN bases \cup started \cup wrapped

RaceInit ==
    /\ \E c \in RaceStarts, a \in RaceCalls, b \in RaceCalls :
          /\ this_peer_id = c.this
          /\ shards_holder = c.shards
          /\ shard_transfers = c.transfers
          /\ transfer_tasks = c.tasks
          /\ detached_tasks = c.detached
          /\ is_initialized = c.ready
          /\ in_flight = [called |-> TRUE, start |-> c, a |-> a, b |-> b]
    /\ last = [op |-> "new", res |-> "Ok", ret |-> FALSE, requested |-> {},
               arg |-> <<>>, registered |-> FALSE, task |-> "NotFound", repeat |-> FALSE]
    /\ DataIdle(ShardIds)
    /\ scroll = NoScroll
    /\ storage = NoStorage
    /\ snapshots = NoSnapshots
    /\ local_sync = NoSync
    /\ initiate = NoInitiate
    /\ holder_lock = NoLock

\* The state after one step s of the call in `slot`.
ApplyStep(slot, s) ==
    /\ this_peer_id' = s.col.this
    /\ shards_holder' = s.col.shards
    /\ shard_transfers' = s.col.transfers
    /\ transfer_tasks' = s.col.tasks
    /\ detached_tasks' = s.col.detached
    /\ is_initialized' = s.col.ready
    /\ in_flight' = [in_flight EXCEPT ![slot] = s.call]
    /\ UNCHANGED <<last, dataVars, auxVars, holder_lock>>

FinishStep ==
    \E slot \in {"a", "b"} :
       /\ in_flight[slot].op = "finish_shard_transfer"
       /\ in_flight[slot].pc # "done"
       /\ \E s \in finish_step(Col, in_flight[slot]) : ApplyStep(slot, s)

AbortStep ==
    \E slot \in {"a", "b"} :
       /\ in_flight[slot].op = "abort_shard_transfer"
       /\ in_flight[slot].pc # "done"
       /\ \E s \in abort_step(Col, in_flight[slot]) : ApplyStep(slot, s)

StartStep ==
    \E slot \in {"a", "b"} :
       /\ in_flight[slot].op = "start_shard_transfer"
       /\ in_flight[slot].pc # "done"
       /\ \E s \in start_step(Col, in_flight[slot]) : ApplyStep(slot, s)

RaceNext ==
    \/ FinishStep
    \/ AbortStep
    \/ StartStep

RaceSpec == RaceInit /\ [][RaceNext]_vars

\* ------------------------------------------------------------ properties
ExistingKeys == {k \in ShardTransferKeys : k.shard_id \in ShardIds}

\* Number of running transfer tasks of a key: the one the pool holds and
\* the one detached from it.
RunningTasks(key) ==
    (IF transfer_tasks[key] = "Running" THEN 1 ELSE 0)
    + (IF key \in detached_tasks THEN 1 ELSE 0)

C2_LastActiveSafety ==
    [][/\ \A shard_id \in ShardIds, peer_id \in PeerIds, state \in InputStates \ {"Active"},
             from_state \in InputFromStates :
             ActiveReplicas(shards_holder[shard_id]) = {peer_id} =>
                \A r \in set_shard_replica_state(Col, shard_id, peer_id, state, from_state) :
                   r.res = "BadInput" /\ r.col = Col
        /\ (last'.op = "set_shard_replica_state" /\ last'.res = "Ok") =>
              \A s \in ShardIds :
                 ActiveReplicas(shards_holder[s]) # {} => ActiveReplicas(shards_holder'[s]) # {}
      ]_vars

\* C3: every shard always has a replica that is Active or Initializing.
C3_ActiveOrInitializing ==
    \A s \in ShardIds :
       \E p \in PeerIds : shards_holder[s].peers[p] \in {"Active", "Initializing"}

\* C4: at most one transfer task runs for a transfer key.
C4_OneRunningTaskPerKey == \A key \in TaskKeys : RunningTasks(key) <= 1

\* C4 witness: a sender started a transfer whose task was already running;
\* one task runs for the key.
C4_Witness ==
    /\ last.op = "start_shard_transfer" /\ last.res = "Ok" /\ last.ret
    /\ last.task = "Running"
    /\ transfer_tasks[TransferKey(last.arg)] = "Running"
    /\ RunningTasks(TransferKey(last.arg)) = 1

\* C5: a second finish_shard_transfer of the same transfer after a
\* successful first one returns Ok and changes neither the replica states,
\* nor the local slot, nor the registry, on the sender, the receiver and a
\* third party alike.
C5_FinishIdempotent ==
    \A t \in ShardTransfers :
       LET r1 == finish_shard_transfer(Col, t)
           r2 == finish_shard_transfer(r1.col, t)
       IN r1.res = "Ok" =>
             /\ r2.res = "Ok"
             /\ r2.col.shards = r1.col.shards
             /\ r2.col.transfers = r1.col.transfers
             /\ r2.col.tasks = r1.col.tasks

\* C5 witness: finish_shard_transfer was called a second time, right after
\* the successful call that unregistered the transfer.
C5_Witness ==
    /\ last.op = "finish_shard_transfer" /\ last.res = "Ok"
    /\ last.repeat /\ ~last.registered
    /\ shards_holder[last.arg.shard_id].peers[last.arg.to] = "Active"

\* C6: abort_shard_transfer of a key that is not registered returns Ok and
\* leaves every replica map as it was.
C6_AbortUnregisteredIsNoOp ==
    \A key \in ExistingKeys :
       ~Registered(key) =>
          \A r \in abort_shard_transfer(Col, key) :
             r.res = "Ok" /\ r.col.shards = Col.shards

\* What C7 asks of the state c after the transfer of `key` ended.
TransferGone(c, key) ==
    /\ get_transfer(c, key) = {}
    /\ c.tasks[key] # "Running"
    /\ key \notin c.detached

\* C7: once finish_shard_transfer or abort_shard_transfer of a registered
\* transfer returned Ok, no task runs for its key and the key is not
\* registered.
C7_TransferEnds ==
    \A t \in shard_transfers :
       /\ LET r == finish_shard_transfer(Col, t)
          IN r.res = "Ok" => TransferGone(r.col, TransferKey(t))
       /\ \A r \in abort_shard_transfer(Col, TransferKey(t)) :
             r.res = "Ok" => TransferGone(r.col, TransferKey(t))

\* C7 witness: a registered transfer whose task was running was finished.
C7_Witness ==
    /\ last.op = "finish_shard_transfer" /\ last.res = "Ok"
    /\ last.registered /\ last.task = "Running"
    /\ TransferGone(Col, TransferKey(last.arg))

RunTask(c, t) ==
    IF c.tasks[TransferKey(t)] = "Running"
    THEN TaskStep(TaskStep(c, TransferKey(t), "proxify"), TransferKey(t), "success")
    ELSE c

\* C9: start_shard_transfer followed by a successful finish_shard_transfer
\* of a transfer from an Active replica A (local on A) to B leaves B Active
\* on every peer; without sync A stays Active and A's slot is a plain
\* local replica, with sync A's local replica is gone and B is the remote.
C9_HappyPath ==
    \A t \in ShardTransfers :
       LET rs == shards_holder[t.shard_id]
           started == start_shard_transfer(Col, t)
           finished == finish_shard_transfer(RunTask(started.col, t), t)
           after == finished.col.shards[t.shard_id]
       IN (/\ rs.peers[t.from] = "Active"
           /\ this_peer_id = t.from => rs.local = "Local"
           /\ started.res = "Ok" /\ finished.res = "Ok") =>
             /\ after.peers[t.to] = "Active"
             /\ ~t.sync => after.peers[t.from] = "Active"
             /\ (~t.sync /\ this_peer_id = t.from) => after.local = "Local"
             /\ (t.sync /\ this_peer_id = t.from) =>
                   after.local = "NoLocal" /\ after.peers[t.to] = "Active"
             /\ this_peer_id = t.to => after.local = "Local"
             /\ get_transfer(finished.col, TransferKey(t)) = {}

\* C9 witness: on the sender a registered transfer without sync whose task
\* had completed was finished: both replicas Active, the slot a plain local.
C9_Witness ==
    /\ last.op = "finish_shard_transfer" /\ last.res = "Ok"
    /\ last.registered /\ last.task = "Finished" /\ ~last.arg.sync
    /\ this_peer_id = last.arg.from
    /\ shards_holder[last.arg.shard_id].peers[last.arg.from] = "Active"
    /\ shards_holder[last.arg.shard_id].peers[last.arg.to] = "Active"
    /\ shards_holder[last.arg.shard_id].local = "Local"

C11_FromStateValidation ==
    \A shard_id \in ShardIds, peer_id \in PeerIds, state \in InputStates :
       LET rs == Col.shards[shard_id]
       IN /\ \A f \in InputFromStates \ {NoFromState} :
                peer_state(rs, peer_id) # f =>
                   \A r \in set_shard_replica_state(Col, shard_id, peer_id, state, f) :
                      /\ r.res = "BadInput"
                      /\ r.col.shards = Col.shards
                      /\ r.col.transfers = Col.transfers
                      /\ r.col.ready = Col.ready
          /\ \A r \in set_shard_replica_state(Col, shard_id, peer_id, state, NoFromState) :
                r.res = "BadInput" => (state # "Active" /\ ActiveReplicas(rs) = {peer_id})

\* C11 witness: a call was answered BadInput in a state where no shard has
\* exactly one Active replica, so only the from_state check can have
\* refused it.
C11_Witness ==
    /\ last.op = "set_shard_replica_state" /\ last.res = "BadInput"
    /\ \A s \in ShardIds : Cardinality(ActiveReplicas(shards_holder[s])) # 1

C12_WitnessOthersStay ==
    /\ last.op = "set_shard_replica_state" /\ last.res = "Ok"
    /\ ~last.registered /\ last.arg[3] = "Dead"
    /\ shard_transfers # {}

\* C13: a successful set_shard_replica_state that sets this peer's own
\* replica Dead requests exactly one transfer {shard, from p, to this peer,
\* sync}, p another peer that is Active in the resulting replica map, when
\* there is one; it requests nothing when there is none, when the new
\* state is not Dead or when the peer is another one.
C13_RecoveryRequest ==
    \A shard_id \in ShardIds, peer_id \in PeerIds, state \in InputStates,
       f \in InputFromStates :
       \A r \in set_shard_replica_state(Col, shard_id, peer_id, state, f) :
          r.res = "Ok" =>
             LET active == ActiveReplicas(r.col.shards[shard_id])
             IN IF state = "Dead" /\ peer_id = this_peer_id /\ active # {}
                THEN \E p \in active \ {this_peer_id} :
                        r.col.requested =
                           {[shard_id |-> shard_id, from |-> p, to |-> this_peer_id,
                             sync |-> TRUE]}
                ELSE r.col.requested = {}

\* C13 witness: this peer's replica was set Dead and a transfer from an
\* Active peer was requested.
C13_Witness ==
    /\ last.op = "set_shard_replica_state" /\ last.res = "Ok"
    /\ last.arg = <<last.arg[1], this_peer_id, "Dead">>
    /\ \E t \in last.requested :
          /\ t.to = this_peer_id /\ t.sync
          /\ shards_holder[t.shard_id].peers[t.from] = "Active"

\* C14: once is_initialized is true it is true in every later state.
C14_LatchNeverResets == [][is_initialized => is_initialized']_vars

\* C14 witness: the latch is set and some replica is not Active.
C14_Witness == is_initialized /\ ~IsFullyActive(Col)

\* C15: after any operation, if every replica of every shard is Active
\* then is_initialized is true; and the latch is set only by a step that
\* ends in such a state.
C15_LatchWhenAllActive ==
    [][/\ IsFullyActive(Col)' => is_initialized'
       /\ (~is_initialized /\ is_initialized') => IsFullyActive(Col)']_vars

\* C16: update_from_client answers from the sub-results in dispatch order:
\* all Ok, one of them; all failed, the first error as it is; some but not
\* all failed, InconsistentShardFailure with shards_total the number of
\* sub-requests, shards_failed the number of failed ones and first_err the
\* first failed one; so 0 < shards_failed < shards_total, and never for an
\* update of one shard.
C16_Aggregation ==
    (client_call.pc = "done" /\ client_call.results # <<>>) =>
       LET results == client_call.results
           failed == {i \in DOMAIN results : ~results[i].ok}
           first == CHOOSE i \in failed : \A j \in failed : i <= j
           ret == client_call.ret
       IN /\ failed = {} => \E i \in DOMAIN results : ret = results[i]
          /\ failed = DOMAIN results => ret = results[1]
          /\ (failed # {} /\ failed # DOMAIN results) =>
                ret = [ok |-> FALSE, err |-> "InconsistentShardFailure",
                       shards_total |-> Len(results),
                       shards_failed |-> Cardinality(failed),
                       first_err |-> results[first]]
          /\ ret.err = "InconsistentShardFailure" =>
                /\ 0 < ret.shards_failed /\ ret.shards_failed < ret.shards_total
                /\ Len(results) > 1

\* C16 witness: of three sub-requests the second and the third failed with
\* different errors, and the answer carries the second.
C16_Witness ==
    /\ client_call.pc = "done" /\ Len(client_call.results) = Cardinality(DataShardIds)
    /\ client_call.results[1].ok
    /\ ~client_call.results[2].ok /\ ~client_call.results[3].ok
    /\ client_call.results[2].err # client_call.results[3].err
    /\ client_call.ret.err = "InconsistentShardFailure"
    /\ client_call.ret.first_err = client_call.results[2]

\* C17: a well-formed operation with points makes exactly one
\* update_with_consistency call for each shard a point of it hashes to, with
\* exactly the points of that shard, and none for another shard; the points
\* of a sub-request that succeeded are stored on their shard; an operation
\* without points makes no call and is answered BadRequest.
C17_Routing ==
    (client_call.pc \in {"dispatch", "done"} /\ client_call.op.valid) =>
       LET op == client_call.op
           calls == client_call.calls
       IN /\ \A s \in DataShardIds :
                Cardinality({i \in DOMAIN calls : calls[i].shard = s}) =
                   IF \E id \in op.points : shard_of(id) = s THEN 1 ELSE 0
          /\ \A i \in DOMAIN calls :
                /\ calls[i].shard \in DataShardIds
                /\ calls[i].points = {id \in op.points : shard_of(id) = calls[i].shard}
                /\ client_call.results[i].ok => calls[i].points \subseteq points[calls[i].shard]
          /\ \A s \in DataShardIds : \A id \in points[s] : shard_of(id) = s
          /\ op.points = {} =>
                /\ client_call.pc = "done"
                /\ client_call.ret = CollectionError("BadRequest")

\* C17 witness: an operation with points of all three shards was split in
\* three calls, one of them with two points, and all were stored.
C17_Witness ==
    /\ client_call.pc = "done" /\ client_call.ret.ok
    /\ Len(client_call.calls) = Cardinality(DataShardIds)
    /\ \E i \in DOMAIN client_call.calls : Cardinality(client_call.calls[i].points) = 2
    /\ \A id \in client_call.op.points : id \in points[shard_of(id)]

\* C17 witness of the other half: an operation without points was answered
\* BadRequest.
C17_WitnessEmpty ==
    /\ client_call.pc = "done" /\ client_call.op.valid /\ client_call.op.points = {}
    /\ client_call.ret = CollectionError("BadRequest")

\* C18: while the write guard of lock_updates is held no step stores a
\* point and no update call gets past its read of the lock; a waiting
\* update call can go on as soon as the lock is free; and a search, scroll,
\* count or retrieve can always complete.
C18_UpdatesLockPausesWrites ==
    [][/\ updates_lock.writer = "Held" =>
             /\ points' = points
             /\ client_call.pc # "dispatch" /\ client_call'.pc # "dispatch"
             /\ peer_call.pc = "lock" => peer_call'.pc = "lock"
             /\ ENABLED ReadCall
       /\ (updates_lock.writer = "Free" /\ client_call.pc = "lock") =>
             ENABLED UpdateFromClientDispatch
       /\ (updates_lock.writer = "Free" /\ peer_call.pc = "lock") =>
             ENABLED UpdateFromPeer]_vars

\* C18 witness: the write guard is held, both update calls wait for the
\* lock and a read completed meanwhile.
C18_Witness ==
    /\ updates_lock.writer = "Held"
    /\ client_call.pc = "lock" /\ peer_call.pc = "lock"
    /\ last_read.held

\* C19: for every request, shard selection and stored points, search
\* answers what search_batch answers for the batch of that one request: the
\* same error, or a batch of exactly one list that is search's list, point
\* by point with payload and vector.
C19_SearchIsBatchOfOne ==
    (Len(query.request) = 1 /\ query.search.done /\ query.search_batch.done) =>
       /\ query.search.res = query.search_batch.res
       /\ query.search.res = "Ok" => query.search_batch.val = <<query.search.val>>

\* top holds the k best elements of the lists, best first: as many as
\* there are, up to k; each taken from the lists and no point twice; no
\* element left out is better than one taken.
IsGlobalTop(top, lists, order, k) ==
    LET elements == UNION {{lists[n][j] : j \in DOMAIN lists[n]} : n \in DOMAIN lists}
        taken == {top[a] : a \in DOMAIN top}
    IN /\ Len(top) = IF Cardinality(elements) < k THEN Cardinality(elements) ELSE k
       /\ \A a, b \in DOMAIN top : a < b => ~Better(order, top[b], top[a])
       /\ taken \subseteq elements
       /\ \A a, b \in DOMAIN top : a # b => top[a].id # top[b].id
       /\ \A e \in elements \ taken : \A t \in taken : ~Better(order, e, t)

\* C20: for every request of the batch, the list merge_from_shards keeps
\* before it removes the offset is the limit + offset best elements of the
\* shards' lists for that request under the order of its vector, best
\* first, and is made of elements of those lists only; so is the list
\* search_batch returns when it removes no offset.
C20_MergeCorrectness ==
    LET target == target_shard(points, query.shard_selection)
        request == query.request
        all_searches_res == all_searches(points, target.shards, request)
    IN target.res = "Ok" =>
          \A index \in DOMAIN request :
             LET lists == [n \in DOMAIN all_searches_res |-> all_searches_res[n][index]]
                 order == distance_order(request[index].vector)
                 k == request[index].limit + request[index].offset
             IN /\ IsGlobalTop(top_res(merged_results(all_searches_res, index),
                                       request[index]), lists, order, k)
                /\ (/\ query.search_batch.done /\ query.search_batch.val # <<>>
                    /\ ~is_two_step(points, request)
                    /\ (query.shard_selection # {} \/ request[index].offset = 0)) =>
                      IsGlobalTop(query.search_batch.val[index], lists, order, k)

\* C20 witness: a batch of two requests with different orders was answered
\* from all shards; the first list holds two points of different shards and
\* leaves points out, the second starts with another point.
C20_Witness ==
    /\ query.search_batch.done /\ query.search_batch.res = "Ok"
    /\ query.shard_selection = {} /\ Len(query.request) = 2
    /\ query.request[1].vector # query.request[2].vector
    /\ query.request[1].offset = 0
    /\ Len(query.search_batch.val) = 2
    /\ Len(query.search_batch.val[1]) = 2 /\ Len(query.search_batch.val[2]) > 0
    /\ shard_of(query.search_batch.val[1][1].id) # shard_of(query.search_batch.val[1][2].id)
    /\ query.search_batch.val[1][1].id # query.search_batch.val[2][1].id
    /\ \A s \in DataShardIds : points[s] # {}

\* The id and score of each point of a list.
IdsAndScores(list) == [j \in DOMAIN list |-> [id |-> list[j].id, score |-> list[j].score]]

\* C21: with shard_selection = None and offset > 0 the list returned for a
\* request is the merged limit + offset best list without its first offset
\* elements: at most limit elements, none when the merged list has no more
\* than offset; with shard_selection = Some(_) the merged list is returned
\* whole, up to limit + offset elements.
C21_OffsetRule ==
    (query.search_batch.done /\ query.search_batch.res = "Ok"
        /\ query.search_batch.val # <<>>) =>
       LET request == query.request
           target == target_shard(points, query.shard_selection)
           all_searches_res == all_searches(points, target.shards, request)
       IN \A index \in DOMAIN request :
             LET top == IdsAndScores(top_res(merged_results(all_searches_res, index),
                                             request[index]))
                 final == IdsAndScores(query.search_batch.val[index])
                 offset == request[index].offset
             IN IF query.shard_selection = {} /\ offset > 0
                THEN /\ Len(final) = IF Len(top) > offset THEN Len(top) - offset ELSE 0
                     /\ \A j \in DOMAIN final : final[j] = top[offset + j]
                     /\ Len(final) <= request[index].limit
                ELSE /\ final = top
                     /\ Len(final) <= request[index].limit + offset

\* C21 witness: a client's request with limit 2 and offset 3 on a
\* collection of four points is answered with the fourth best point alone.
C21_Witness ==
    /\ query.search_batch.done /\ query.search_batch.res = "Ok"
    /\ query.shard_selection = {} /\ Len(query.request) = 1
    /\ query.request[1].offset = 3 /\ query.request[1].limit = 2
    /\ Cardinality(UNION {points[s] : s \in DataShardIds}) = 4
    /\ Len(query.search_batch.val) = 1 /\ Len(query.search_batch.val[1]) = 1

\* C21 witness of the other half: a request with limit 1 and offset 1 sent
\* to one shard is answered with two points.
C21_WitnessSelected ==
    /\ query.search_batch.done /\ query.search_batch.res = "Ok"
    /\ query.shard_selection # {} /\ Len(query.request) = 1
    /\ query.request[1].offset = 1 /\ query.request[1].limit = 1
    /\ Len(query.search_batch.val) = 1 /\ Len(query.search_batch.val[1]) = 2

\* The offset the n-th scroll_by call of the caller carried.
PageOffset(n) ==
    IF n = 1 THEN scroll.request.offset ELSE scroll.pages[n - 1].next_page_offset

\* The ids the target shards answered the n-th call with, all together.
PageAnswers(n) ==
    LET target == target_shard(points, scroll.shard_selection)
    IN UNION {{shard_scroll_by(points[target.shards[k]], PageOffset(n),
                               unwrap_or(scroll.request.limit, DefaultScrollLimit) + 1,
                               scroll.request.filter)[i].id :
                 i \in 1..Len(shard_scroll_by(points[target.shards[k]], PageOffset(n),
                               unwrap_or(scroll.request.limit, DefaultScrollLimit) + 1,
                               scroll.request.filter))} :
              k \in DOMAIN target.shards}

\* C22: a page that scroll_by returns for limit >= 1 holds the `limit`
\* smallest ids of the union of the target shards' answers, ascending;
\* next_page_offset is the (limit + 1)-th smallest id exactly when the union
\* holds at least limit + 1 points, so it is greater than every returned id;
\* limit = 0 is answered BadRequest and no shard is queried.
C22_PageShape ==
    scroll.called =>
        \A n \in DOMAIN scroll.pages :
            LET page == scroll.pages[n]
                limit == unwrap_or(scroll.request.limit, DefaultScrollLimit)
                union == Ascending(PageAnswers(n))
            IN /\ limit = 0 => page.res = "BadRequest" /\ page.queried = {}
               /\ limit >= 1 /\ page.res = "Ok" =>
                     /\ [i \in DOMAIN page.points |-> page.points[i].id]
                           = take(union, limit)
                     /\ page.next_page_offset # {} <=> Len(union) >= limit + 1
                     /\ page.next_page_offset # {} =>
                           /\ page.next_page_offset = {union[limit + 1]}
                           /\ \A i \in DOMAIN page.points, o \in page.next_page_offset :
                                 page.points[i].id < o

\* A page of two points that come from two shards, cut out of an answer of
\* more than three points, with the offset of the next page.
C22_Witness ==
    /\ scroll.called
    /\ scroll.request.limit = {2}
    /\ \E n \in DOMAIN scroll.pages :
          /\ scroll.pages[n].res = "Ok"
          /\ scroll.pages[n].next_page_offset # {}
          /\ Len(scroll.pages[n].points) = 2
          /\ shard_of(scroll.pages[n].points[1].id) # shard_of(scroll.pages[n].points[2].id)
          /\ Cardinality(PageAnswers(n)) > 3

\* A scroll with limit 0 that was answered.
C22_WitnessZero ==
    /\ scroll.called
    /\ scroll.request.limit = {0}
    /\ scroll.pages # <<>>
    /\ scroll.pages[1].res = "BadRequest"

\* b.patch <= a.patch + 1 with the same major and minor, in the integers.
Upgradable(a, b) == a.major = b.major /\ a.minor = b.minor /\ b.patch <= a.patch + 1

\* C23: can_upgrade_storage(a, b) is true iff a and b have the same major
\* and minor and b.patch <= a.patch + 1; load passes its version check iff
\* the stored version equals the application's, or is smaller and can be
\* upgraded.
C23_VersionGate ==
    storage.called =>
        /\ storage.can_upgrade # "none" =>
              (storage.can_upgrade = "true" <=> Upgradable(storage.stored, storage.app))
        /\ storage.load # "none" =>
              (storage.load = "proceed" <=>
                  \/ storage.stored = storage.app
                  \/ /\ version_less(storage.stored, storage.app)
                     /\ Upgradable(storage.stored, storage.app))

\* The half of C23 that is about load alone.
C23_LoadGate ==
    storage.called /\ storage.load # "none" =>
        (storage.load = "proceed" <=>
            \/ storage.stored = storage.app
            \/ /\ version_less(storage.stored, storage.app)
               /\ Upgradable(storage.stored, storage.app))

\* C24: get_snapshot_path answers Ok only when the canonical form of
\* snapshots_path/name exists and lies under the canonical snapshots
\* directory; a name whose canonical path leaves the directory (by `..`, as
\* an absolute path, through a symbolic link) is answered NotFound; the
\* path returned designates no file outside the directory.
C24_SnapshotPathSafety ==
    snapshots.called =>
        \A g \in {snapshots.get[i] : i \in DOMAIN snapshots.get} :
            LET canonical == resolve(g.fs, <<>>, join(snapshots_path, g.name),
                                     MaxSymlinks)
                directory == resolve(g.fs, <<>>, snapshots_path, MaxSymlinks)
                designated == resolve(g.fs, <<>>, g.result.path, MaxSymlinks)
            IN /\ g.result.res \in {"Ok", "NotFound"}
               /\ g.result.res = "Ok" =>
                     /\ canonical.ok /\ directory.ok
                     /\ starts_with(canonical.path, directory.path)
                     /\ designated.ok
                     /\ starts_with(designated.path, directory.path)
               /\ canonical.ok /\ directory.ok
                     /\ ~starts_with(canonical.path, directory.path)
                  => g.result.res = "NotFound"

\* A name that leads out of the directory through a symbolic link was
\* answered NotFound.
C24_Witness ==
    /\ snapshots.called
    /\ snapshots.get # <<>>
    /\ snapshots.get[1].name = Relative(<<Dir("link")>>)
    /\ resolve(snapshots.get[1].fs, <<>>, join(snapshots_path, snapshots.get[1].name),
               MaxSymlinks).path = SecretPath
    /\ snapshots.get[1].result.res = "NotFound"

\* A name with `..` in it that stays in the directory was answered Ok.
C24_WitnessOk ==
    /\ snapshots.called
    /\ snapshots.get # <<>>
    /\ snapshots.get[1].name = Relative(<<ParentDir, Dir("snapshots"), OldSnapshot>>)
    /\ snapshots.get[1].result.res = "Ok"

\* The files named <name>.snapshot in the snapshots directory.
SnapshotFiles(fs) ==
    {f \in fs.files : /\ Len(f.path) = Len(snapshots_path) + 1
                      /\ starts_with(f.path, snapshots_path)
                      /\ f.path[Len(f.path)].ext = "snapshot"}

\* C25: at every step of create_snapshot, failing steps included, a file
\* <name>.snapshot in the snapshots directory is the complete archive: every
\* shard's snapshot, the config and the version marker, written to its end;
\* and such a file appears or changes only by the rename of <name>.tmp.
C25_AtomicPublication ==
    [][/\ \A f \in SnapshotFiles(snapshots.fs') :
             f.whole /\ f.members = CompleteArchive(DOMAIN shards_holder)
       /\ SnapshotFiles(snapshots.fs') # SnapshotFiles(snapshots.fs) =>
             /\ snapshots.create.pc = "rename"
             /\ SnapshotFiles(snapshots.fs') \ SnapshotFiles(snapshots.fs)
                   = {File(Append(snapshots_path, snapshots.create.name),
                           f.members, f.whole) :
                        f \in {g \in snapshots.fs.files :
                                 g.path = Append(snapshots_path,
                                                 with_extension(snapshots.create.name, "tmp"))}}
      ]_vars

\* A call that failed while it copied has left its <name>.tmp behind and no
\* snapshot of that name, and a later call has published its snapshot.
C25_Witness ==
    /\ snapshots.called
    /\ snapshots.create.pc = "idle" /\ snapshots.create.res = "Ok"
    /\ is_file(snapshots.fs, Append(snapshots_path, snapshots.create.name))
    /\ \E f \in snapshots.fs.files :
          /\ ~f.whole
          /\ f.path[Len(f.path)].ext = "tmp"
          /\ ~is_file(snapshots.fs,
                      Append(snapshots_path, with_extension(f.path[Len(f.path)], "snapshot")))

\* C26: a list of one Remove(shard, peer) is rejected with BadRequest when
\* the shard is missing, the peer has no replica of it, or the peer is its
\* only replica, and the replica maps stay as they were; otherwise the call
\* is Ok and the peer is removed from that shard and no other; the empty
\* list is Ok and changes nothing.
C26_ReplicaRemoval ==
    [][last'.op = "handle_replica_changes" =>
          /\ last'.arg = <<>> => last'.res = "Ok" /\ shards_holder' = shards_holder
          /\ Len(last'.arg) = 1 =>
                LET change == last'.arg[1]
                    rejected ==
                        \/ change.shard_id \notin DOMAIN shards_holder
                        \/ shards_holder[change.shard_id].peers[change.peer_id] = Absent
                        \/ \A p \in PeerIds \ {change.peer_id} :
                              shards_holder[change.shard_id].peers[p] = Absent
                IN IF rejected
                   THEN last'.res = "BadRequest" /\ shards_holder' = shards_holder
                   ELSE /\ last'.res = "Ok"
                        /\ shards_holder'[change.shard_id].peers =
                              [shards_holder[change.shard_id].peers EXCEPT
                                  ![change.peer_id] = Absent]
                        /\ \A s \in DOMAIN shards_holder \ {change.shard_id} :
                              shards_holder'[s] = shards_holder[s]
      ]_vars

\* Peer 2 was removed from shard 0 and still has its replica of shard 1.
C26_Witness ==
    /\ last.op = "handle_replica_changes"
    /\ last.res = "Ok"
    /\ last.arg = <<[shard_id |-> 0, peer_id |-> 2]>>
    /\ shards_holder[0].peers[2] = Absent
    /\ shards_holder[1].peers[2] = "Active"

\* The removal of the only replica of shard 0 was rejected.
C26_WitnessRejected ==
    /\ last.op = "handle_replica_changes"
    /\ last.res = "BadRequest"
    /\ Len(last.arg) = 1
    /\ last.arg[1].shard_id = 0
    /\ peers(shards_holder[0]) = {last.arg[1].peer_id}

C27_WitnessRunning ==
    /\ local_sync.called /\ local_sync.ran
    /\ SyncTransfer(0, 1, 2, FALSE) \in local_sync.col.transfers
    /\ local_sync.col.tasks[TransferKey(SyncTransfer(0, 1, 2, FALSE))] = "Running"
    /\ \A cb \in local_sync.run.transfer_callbacks : cb.transfer # SyncTransfer(0, 1, 2, FALSE)

C28_WitnessFromListener ==
    /\ local_sync.called /\ local_sync.ran
    /\ local_sync.node_type = "Normal"
    /\ local_sync.run.peer_callbacks =
          {PeerCallback("on_convert_from_listener", 1, 0), PeerCallback("on_finish_init", 1, 1)}

\* C29: for a shard whose local replica is Dead and no dummy one run makes
\* at most one transfer request, {shard, from: r, to: this peer, sync: true}
\* with r an Active remote replica, and only when no registered transfer
\* conflicts with it (same shard, a common endpoint); when every Active
\* remote replica conflicts, or the replica is a dummy or not Dead, no
\* request is made for the shard.
C29_RecoveryRequests ==
    local_sync.called /\ local_sync.ran =>
        LET c == local_sync.col
        IN \A s \in DOMAIN c.shards :
              LET for_s == {t \in local_sync.run.requested : t.shard_id = s}
                  Conflicts(r) ==
                      \E u \in c.transfers :
                         u.shard_id = s /\ {u.from, u.to} \cap {r, c.this} # {}
                  free == {r \in PeerIds \ {c.this} :
                             c.shards[s].peers[r] = "Active" /\ ~Conflicts(r)}
              IN /\ Cardinality(for_s) <= 1
                 /\ \A t \in for_s :
                       /\ c.shards[s].peers[c.this] = "Dead"
                       /\ c.shards[s].local # "Dummy"
                       /\ t.to = c.this /\ t.sync /\ t.from \in free
                 /\ \/ c.shards[s].peers[c.this] # "Dead"
                    \/ c.shards[s].local = "Dummy"
                    \/ free = {}
                    => for_s = {}
                 /\ local_sync.run.requested \subseteq
                       [shard_id : DOMAIN c.shards, from : PeerIds, to : {c.this}, sync : {TRUE}]

\* Shard 0 is Dead here, peers 2 and 3 are Active, and a registered
\* transfer from 2 to 4 conflicts with a recovery from 2: the request names 3.
C29_Witness ==
    /\ local_sync.called /\ local_sync.ran
    /\ local_sync.col.shards[0].peers = <<"Dead", "Active", "Active">>
    /\ local_sync.col.shards[0].local = "Local"
    /\ SyncTransfer(0, 2, 4, FALSE) \in local_sync.col.transfers
    /\ {t \in local_sync.run.requested : t.shard_id = 0} = {SyncTransfer(0, 3, 1, TRUE)}

\* Every Active remote replica of the Dead shard 0 conflicts: no request.
C29_WitnessAllConflict ==
    /\ local_sync.called /\ local_sync.ran
    /\ local_sync.col.shards[0].peers = <<"Dead", "Active", "Active">>
    /\ local_sync.col.shards[0].local = "Local"
    /\ {SyncTransfer(0, 2, 4, FALSE), SyncTransfer(0, 3, 4, FALSE)} \subseteq local_sync.col.transfers
    /\ {t \in local_sync.run.requested : t.shard_id = 0} = {}

\* C30: initiate_shard_transfer returns Ok iff, before the 60 seconds are
\* over, the registered transfers hold a transfer of that shard to this
\* peer (at the call or added while it waits), and Timeout otherwise; for a
\* shard that does not exist it returns ServiceError without waiting; a
\* call never waits beyond the 60 seconds.
C30_InitiateOutcome ==
    initiate.called =>
        /\ initiate.pc = "waiting" => initiate.elapsed <= WaitSecs
        /\ initiate.pc = "returned" =>
              IF initiate.shard_id \notin DOMAIN shards_holder
              THEN initiate.res = "ServiceError" /\ initiate.elapsed = 0
              ELSE /\ initiate.res \in {"Ok", "Timeout"}
                   /\ initiate.res = "Ok" <=> initiate.seen

\* The half of C30 that holds: Ok is returned only when the waiter found
\* such a transfer registered, Timeout only after the 60 seconds.
C30_OkOnlyWhenSeen ==
    initiate.called /\ initiate.pc = "returned"
        /\ initiate.shard_id \in DOMAIN shards_holder =>
        /\ initiate.res = "Ok" =>
              /\ initiate.seen
              /\ shard_transfer_requested(shard_transfers, initiate.shard_id, this_peer_id)
        /\ initiate.res = "Timeout" =>
              /\ initiate.elapsed = WaitSecs
              /\ ~shard_transfer_requested(shard_transfers, initiate.shard_id, this_peer_id)


\* The running call waits for a read guard behind a writer that waits for
\* the read guard the call holds: neither is ever let in.
GuardsDeadlocked ==
    /\ holder_lock.called
    /\ holder_lock.pc = "running"
    /\ holder_lock.held > 0
    /\ holder_lock.writer = "waiting"
    /\ holder_lock.queue # <<>>
    /\ Head(holder_lock.queue) = "writer"
    /\ "task" \in {holder_lock.queue[i] : i \in DOMAIN holder_lock.queue}

\* C31: abort_shard_transfer, set_shard_replica_state(.., Dead, ..) and
\* sync_local_state always complete, also when a writer asks for the
\* ShardHolder write guard while they run: the call never waits for a read
\* guard behind a writer that waits for the guard the call holds.
C31_DeadlockAvoidance == ~GuardsDeadlocked

\* C31, second half: no call takes the ShardHolder read guard while it
\* holds one.
C31_NoNestedRead == holder_lock.called => holder_lock.held <= 1

\* The calls of the lock study have the outcomes of the operations themselves.
GuardedOutcomes ==
    holder_lock.called /\ holder_lock.pc = "idle" =>
        /\ \A key \in ShardTransferKeys :
              {g.r : g \in abort_shard_transfer_guards(Col, key)} = abort_shard_transfer(Col, key)
        /\ \A peer_id \in TransferPeers :
              {g.r : g \in set_shard_replica_state_guards(Col, 0, peer_id, "Dead", NoFromState)}
                 = set_shard_replica_state(Col, 0, peer_id, "Dead", NoFromState)

\* Both calls have returned.
RaceOver == in_flight.called /\ in_flight.a.pc = "done" /\ in_flight.b.pc = "done"

\* The steps of a call, taken alone, are the operation: same state and result.
StepsAreTheOperation ==
    in_flight.called =>
        \A call \in RaceCalls :
           call.op # "none" /\ call.build_ok =>
              {[col |-> s.col, res |-> s.call.res] : s \in run_alone(in_flight.start, call)}
                 = {[col |-> r.col, res |-> r.res] :
                      r \in IF call.op = "finish_shard_transfer"
                            THEN {finish_shard_transfer(in_flight.start, call.t)}
                            ELSE IF call.op = "abort_shard_transfer"
                            THEN abort_shard_transfer(in_flight.start, TransferKey(call.t))
                            ELSE {start_shard_transfer(in_flight.start, call.t)}}

\* A call as it was when it began.
Fresh(call) ==
    Call(call.op, call.t,
         IF call.op = "none" THEN "done"
         ELSE IF call.op = "start_shard_transfer" THEN "register" ELSE "stop",
         call.build_ok)

\* Replica states, local slots and registry after x, then y, one after the other.
OneAfterTheOther(c, x, y) ==
    {[shards |-> s.col.shards, transfers |-> s.col.transfers] :
        s \in UNION {run_alone(m.col, Fresh(y)) : m \in run_alone(c, Fresh(x))}}

\* C32: when finish_shard_transfer and abort_shard_transfer (or two of
\* either) for the same transfer key run concurrently on one peer, the
\* replica states, the local replica slot and the transfer registry at the
\* end are those of the two calls run one after the other in some order.
C32_PerKeySerialization ==
    RaceOver
        /\ in_flight.a.op \in {"finish_shard_transfer", "abort_shard_transfer"}
        /\ in_flight.b.op \in {"finish_shard_transfer", "abort_shard_transfer"} =>
        [shards |-> shards_holder, transfers |-> shard_transfers]
            \in OneAfterTheOther(in_flight.start, in_flight.a, in_flight.b)
                \cup OneAfterTheOther(in_flight.start, in_flight.b, in_flight.a)

\* C35: when start_shard_transfer returns an error, the transfer registry
\* and all replica states are as before the call and no task was spawned
\* (no other call runs meanwhile).
C35_FailedStartLeavesNoTrace ==
    in_flight.called
        /\ in_flight.a.op = "start_shard_transfer" /\ in_flight.a.pc = "done"
        /\ in_flight.a.res # "Ok" /\ in_flight.b.op = "none" =>
        /\ shard_transfers = in_flight.start.transfers
        /\ shards_holder = in_flight.start.shards
        /\ transfer_tasks = in_flight.start.tasks

\* C36: in every state in which no coordinator call is in progress, every
\* running task of the transfer tasks pool belongs to a transfer that is
\* registered in shard_transfers, also when abort_shard_transfer or
\* finish_shard_transfer for the key ran between the registration of
\* start_shard_transfer and its task spawn in send_shard.
C36_NoOrphanTask ==
    RaceOver =>
        \A key \in TaskKeys : transfer_tasks[key] = "Running" => Registered(key)

\* The completion action of this peer's role alone, applied to the replicas.
CompletionOfRole(c, t) ==
    IF c.this = t.from
    THEN handle_transferred_shard_proxy(c, t.shard_id, t.to, t.sync).shards
    ELSE IF c.this = t.to
    THEN finalize_partial_shard(c, t.shard_id).shards
    ELSE change_remote_shard_route(c, t.shard_id, t.from, t.to, t.sync).shards

\* C33: on finish_shard_transfer each peer performs exactly the completion
\* action of its role: the sender only handles the transferred proxy, the
\* receiver only promotes its Partial replica to Active, and
\* change_remote_shard_route is applied only on third-party peers (stated
\* for the finish of a registered transfer).
C33_CompletionByRole ==
    [][last'.op = "finish_shard_transfer" /\ last'.registered =>
          shards_holder' = CompletionOfRole(Col, last'.arg)]_vars

\* C33 without the receiver: the sender and the third-party peers perform
\* the completion action of their role.
C33_SenderAndThirdParty ==
    [][last'.op = "finish_shard_transfer" /\ last'.registered
          /\ this_peer_id # last'.arg.to =>
          shards_holder' = CompletionOfRole(Col, last'.arg)]_vars

\* Payload or vectors are requested: by every request of the batch.
MetadataRequested(request) ==
    \/ \A i \in DOMAIN request : request[i].with_payload = "True"
    \/ \A i \in DOMAIN request : request[i].with_vector = "True"

C34_WitnessVectors ==
    /\ query.search_batch.done
    /\ Len(query.request) = 1
    /\ is_two_step(points, query.request)
    /\ query.search_batch.res = "Ok"
    /\ \E j \in DOMAIN query.search_batch.val[1] :
          query.search_batch.val[1][j].vector # {}

\* C37: whenever set_shard_replica_state(shard, peer, s, _) returns Ok, the
\* replica map of the shard contains peer with state s, also when s = Dead
\* and the call aborts registered transfers the peer is an endpoint of.
C37_StatePostcondition ==
    last.op = "set_shard_replica_state" /\ last.res = "Ok" =>
        shards_holder[last.arg[1]].peers[last.arg[2]] = last.arg[3]

\* C37 for the calls that abort no transfer.
C37_WithoutRelatedTransfers ==
    last.op = "set_shard_replica_state" /\ last.res = "Ok" /\ ~last.registered =>
        shards_holder[last.arg[1]].peers[last.arg[2]] = last.arg[3]

\* C38: when handle_replica_changes returns an error for a list of several
\* changes, no replica map of any shard has changed.
C38_AllOrNothing ==
    [][last'.op = "handle_replica_changes" /\ last'.res # "Ok" =>
          shards_holder' = shards_holder]_vars

\* C40: on every call of send_shard, that is every start_shard_transfer that
\* returns true, stop_if_exists for the key of the transfer returns
\* NotFound: the pool held neither a running task nor a retained outcome.
C40_SendShardAssertion ==
    last.op = "start_shard_transfer" /\ last.res = "Ok" /\ last.ret =>
        last.task = "NotFound"

\* C40 for the start of a transfer whose key was not registered.
C40_WhenNotRegistered ==
    last.op = "start_shard_transfer" /\ last.res = "Ok" /\ last.ret /\ ~last.registered =>
        last.task = "NotFound"

\* The ids of the points of the target shards that match the filter, ascending.
MatchingIds ==
    LET target == target_shard(points, scroll.shard_selection)
    IN Ascending({id \in UNION {points[target.shards[k]] : k \in DOMAIN target.shards} :
                     filter_matches(scroll.request.filter, id)})

\* The ids of the pages received so far, one page after the other.
ReceivedIds ==
    Flatten([n \in DOMAIN scroll.pages |->
                [i \in DOMAIN scroll.pages[n].points |-> scroll.pages[n].points[i].id]])

\* A pagination from the start on a quiescent collection: no offset in the
\* first request, a limit of at least `least` and at most `most`, target
\* shards that exist and answer.
Pagination(least, most) ==
    /\ scroll.called
    /\ scroll.pages # <<>>
    /\ scroll.request.offset = {}
    /\ scroll.failing = {}
    /\ target_shard(points, scroll.shard_selection).res = "Ok"
    /\ unwrap_or(scroll.request.limit, DefaultScrollLimit) >= least
    /\ unwrap_or(scroll.request.limit, DefaultScrollLimit) <= most

\* Every call returned a page; the pages so far hold the first matching
\* points, each once and in ascending order; the page without
\* next_page_offset ends them all; there are no more calls than points, but
\* for the last.
PagesComplete ==
    /\ \A n \in DOMAIN scroll.pages : scroll.pages[n].res = "Ok"
    /\ Len(ReceivedIds) <= Len(MatchingIds)
    /\ ReceivedIds = SubSeq(MatchingIds, 1, Len(ReceivedIds))
    /\ scroll.pages[Len(scroll.pages)].next_page_offset = {} => ReceivedIds = MatchingIds
    /\ Len(scroll.pages) <= Len(MatchingIds) + 1

\* C39: on a quiescent collection, calling scroll_by again and again with
\* the same limit and filter and the offset of the previous page's
\* next_page_offset, from no offset on, returns every matching point of the
\* target shards exactly once, in ascending id order across pages, and
\* reaches a page with next_page_offset = None after finitely many calls.
C39_ScrollPagination == Pagination(1, UsizeMax) => PagesComplete

\* C39 for the limits below usize::MAX.
C39_BelowMaxLimit == Pagination(1, UsizeMax - 1) => PagesComplete
====
